---- MODULE Spec2Model ----
(***************************************************************************)
(* The pytuya device session (pytuya/device.py): the MessageDispatcher's   *)
(* waiter table, TuyaProtocol.exchange with the v3.4/v3.5 session-key      *)
(* handshake, the heartbeat task, close() and connection_lost(), and the   *)
(* data-point operations: status, set_dp, reset, update_dps,               *)
(* add_dps_to_request, detect_available_dps and the DP cache.              *)
(*                                                                         *)
(* Scheduling is asyncio's: one task runs at a time and gives up control   *)
(* only at an await, so an action is the code a task or a loop callback    *)
(* runs between two suspension points.  A received frame is modelled after *)
(* the frame codec has decoded it (a TuyaMessage handed to _dispatch).     *)
(***************************************************************************)
EXTENDS Integers, Sequences, FiniteSets, TLC

\* ------------------------------------------------------------------ bounds
\* host tasks that call the public API concurrently
NumCallers == 2
\* the sequence counter is followed up to this value
MaxSeqno == 4
\* a nonce (16 random bytes in the code) is one of 0..MaxNonce
MaxNonce == 1
\* operations the host starts in one run (API calls that begin an operation)
MaxOps == 2
\* frames the device sends in one run
MaxRecv == 2

\* pieces the peer sends in a run of the receive buffer
MaxUnits == 2

\* longest payload given to pack_message
MaxPayloadLen == 5

\* --------------------------------------------------------------- constants
CMD_SESS_KEY_NEG_START == 3
CMD_SESS_KEY_NEG_RESP == 4
CMD_SESS_KEY_NEG_FINISH == 5
CMD_CONTROL == 7
CMD_STATUS == 8
CMD_HEART_BEAT == 9
CMD_DP_QUERY == 10
CMD_CONTROL_NEW == 13
CMD_DP_QUERY_NEW == 16
CMD_UPDATE_DPS == 18

HEARTBEAT_SEQNO == -100
RESET_SEQNO == -101
SESS_KEY_SEQNO == -102

\* recv_retries of _exchange_quick
RECV_RETRIES == 2

\* retry_count of detect_available_dps
RETRY_COUNT == 3

SESSION_KEY_CMDS == {CMD_SESS_KEY_NEG_START, CMD_SESS_KEY_NEG_RESP, CMD_SESS_KEY_NEG_FINISH}

\* protocol versions, times ten
Versions == {31, 32, 33, 34, 35}

DEVICE_TYPE_0A == "type_0a"
DEVICE_TYPE_0D == "type_0d"
DEVICE_TYPE_V34 == "v3.4"
DEVICE_TYPE_V35 == "v3.5"

\* ------------------------------------------------------------------ domains
\* task 0 is the heartbeat task, 1..NumCallers are host tasks
Tasks == 0..NumCallers
Callers == 1..NumCallers
Nonces == 0..MaxNonce
\* os.urandom(16) for the client's nonce is followed as one value
LocalNonces == {1}
\* the DP index a modelled reply carries
DPs == {1}

\* keys of the waiter table: on-wire seqnos and the three virtual ones
Keys == (0..MaxSeqno) \cup {HEARTBEAT_SEQNO, RESET_SEQNO, SESS_KEY_SEQNO}

\* commands a received frame may carry
InCmds == {CMD_SESS_KEY_NEG_RESP, CMD_STATUS, CMD_HEART_BEAT, CMD_CONTROL_NEW}
\* payloads of a received frame, by what the decoders make of them:
\*   empty   b"" (also what _unpack_message_6699 hands on, with crc_good False,
\*           for a 6699 frame that none of its three decryptions can open)
\*   nonce   >= 48 bytes after decryption: remote nonce pn, then an HMAC
\*   short   non-empty, undecodable, < 48 bytes after decryption
\*   dps     JSON {"dps": {"1": pn}}
\*   unvalid the text "data unvalid"
PayloadKinds == {"empty", "nonce", "short", "dps", "unvalid"}
\* the payloads followed for each command
PayloadsOf(c) ==
    IF c = CMD_SESS_KEY_NEG_RESP THEN {"nonce", "short", "empty"}
    ELSE IF c = CMD_STATUS THEN {"dps", "unvalid"}
    ELSE IF c = CMD_HEART_BEAT THEN {"empty"}
    ELSE {"empty", "dps"}
Msgs == {m \in [seqno : 0..(MaxSeqno - 1), cmd : InCmds, pk : PayloadKinds, pn : Nonces] :
            /\ m.pk \in PayloadsOf(m.cmd)
            /\ m.pn = 0 \/ m.pk \in {"nonce", "dps"}}

\* commands the public operations hand to exchange():
\* heartbeat, status, set_dp/set_dps
ExchangeOps == {CMD_HEART_BEAT, CMD_DP_QUERY, CMD_CONTROL}

\* --------------------------------------------------------------------- keys
NoKey == [kind |-> "none", x |-> 0, iv |-> -1]
DeviceKey == [kind |-> "device", x |-> 0, iv |-> -1]

RECURSIVE Xor(_, _)
\* bytes(a ^ b for a, b in zip(local_nonce, remote_nonce))
Xor(a, b) ==
    IF a = 0 THEN b
    ELSE IF b = 0 THEN a
    ELSE ((a + b) % 2) + 2 * Xor(a \div 2, b \div 2)

\* the session key of the two nonces: AES-ECB(device_key, xor) for v3.4,
\* AES-GCM(device_key, iv = local_nonce[:12], xor) for v3.5
DeriveKey(v, ln, rn) ==
    [kind |-> "session", x |-> Xor(ln, rn), iv |-> IF v >= 35 THEN ln ELSE -1]

\* ------------------------------------------------------------ waiter table
Absent == [kind |-> "absent", owner |-> -1, seqno |-> 0, cmd |-> 0, pk |-> "empty", pn |-> 0]
\* the asyncio.Semaphore(0) task t stored
Sem(t) == [kind |-> "sem", owner |-> t, seqno |-> 0, cmd |-> 0, pk |-> "empty", pn |-> 0]
\* listeners[seqno] = None
Aborted == [kind |-> "none", owner |-> -1, seqno |-> 0, cmd |-> 0, pk |-> "empty", pn |-> 0]
\* listeners[seqno] = msg
Stored(m) == [kind |-> "msg", owner |-> -1, seqno |-> m.seqno, cmd |-> m.cmd, pk |-> m.pk, pn |-> m.pn]
\* what a timed-out wait hands on (no table entry)
TimedOut == [kind |-> "timeout", owner |-> -1, seqno |-> 0, cmd |-> 0, pk |-> "empty", pn |-> 0]

\* a variant of Has that finds no entry, so that wait_for registers over one
HasNever(L, k) == FALSE

\* seqno in self.listeners
Has(L, k) == k \in Keys /\ L[k].kind # "absent"

\* --------------------------------------------------------------- variables
VARIABLES
    version,        \* protocol_version * 10
    seqno,          \* TuyaProtocol.seqno
    session_key,    \* TuyaProtocol.session_key
    d_session_key,  \* MessageDispatcher.session_key
    local_nonce,    \* TuyaProtocol.local_nonce
    remote_nonce,   \* TuyaProtocol.remote_nonce (-1: None)
    device_type,    \* TuyaProtocol.device_type
    dps_cache,      \* TuyaProtocol.dps_cache: DP index -> value (-1: absent)
    transport,      \* TuyaProtocol.transport is not None
    tstate,         \* the transport: "open", "closing" (connection_lost scheduled), "lost"
    heartbeater,    \* TuyaProtocol.heartbeater is not None
    listeners,      \* MessageDispatcher.listeners
    tasks,          \* per task: where it is suspended and what it is doing
    lastWrite,      \* the frame the latest step wrote to the transport (NoFrame: none)
    ret,            \* the operation that ended in the latest step, and how (NoRet: none)
    ops,            \* operations the host has started
    recvd,          \* frames received
    disconnected,   \* calls of listener.disconnected()
    notified,       \* listener.status_updated() in the latest step, and its argument
    dps_to_request, \* TuyaProtocol.dps_to_request: the DP indices it holds
    detecting,      \* per host task: where its detect_available_dps() is (NotDetecting: not in it)
    key,            \* _process_buffer's key for the frame of the latest step (NoKey: no frame)
    buffer,         \* MessageDispatcher.buffer
    dispatched,     \* the messages _process_buffer has given to _dispatch, in order
    raised,         \* the error that has left data_received ("none": it returned)
    stream,         \* what the peer sends: frames and other pieces, each with its bytes
    pos,            \* how many bytes of it have arrived
    codec           \* a pack_message call (and what _encode_message made the payload of), its frame
                    \* on the wire and what unpack_message makes of it

vars == <<version, seqno, session_key, d_session_key, local_nonce, remote_nonce,
          device_type, dps_cache, transport, tstate, heartbeater, listeners, tasks,
          lastWrite, ret, ops, recvd, disconnected, notified,
          dps_to_request, detecting, key,
          buffer, dispatched, raised, stream, pos, codec>>

\* the receive buffer, the bytes on the wire and the frame codec
wire == <<buffer, dispatched, raised, stream, pos, codec>>

\* ---------------------------------------------------------------- helpers
\* detect_available_dps: ranges
Ranges == <<[lo |-> 2, hi |-> 11], [lo |-> 11, hi |-> 21], [lo |-> 21, hi |-> 31],
            [lo |-> 100, hi |-> 111]>>

\* a variant of RangeDps that takes the upper end of the range into it
RangeDpsClosed(r) == {1} \cup (Ranges[r].lo .. Ranges[r].hi)

\* dps_to_request for range r: {"1": None} and str(i) for i in range(lo, hi)
RangeDps(r) == {1} \cup (Ranges[r].lo .. (Ranges[r].hi - 1))

\* where a detect_available_dps() call is: what it does next (next), the
\* attempt of the current retry loop (att) and the range (rng)
\*   hb     call heartbeat()            hbout  heartbeat() has ended
\*   range  begin range rng             st     call status()
\*   stout  status() has ended
\* (upd: update_dps(None) made the call)
NotDetecting == [next |-> "off", att |-> 0, rng |-> 1, upd |-> FALSE]

\* no detect_available_dps() is between two of its statements: a task at
\* "dnext" goes on before anything else runs, since it has not awaited
Calm == \A t \in Callers : tasks[t].pc # "dnext"

\* the data points in a frame's JSON payload: the field that carries them
\* ("dpId", "data" for {"data": {"dps": ..}}, "dps", or "none") and their indices
NoBody == [field |-> "none", ids |-> {}]

\* the argument an operation hands to exchange as dps: None, or given DP indices
NoData == [given |-> FALSE, ids |-> {}]
Given(ids) == [given |-> TRUE, ids |-> ids]

NoFrame == [seqno |-> 0, cmd |-> 0, key |-> NoKey, by |-> -1, body |-> NoBody]
\* a written frame: the seqno, command and key pack_message got, the writing
\* task and the data points of the payload
Frame(sq, c, k, t, b) == [seqno |-> sq, cmd |-> c, key |-> k, by |-> t, body |-> b]

\* a task that has nothing in progress
FreshTask(p) ==
    [pc |-> p, op |-> 0, data |-> NoData, cmd |-> 0, wkey |-> 0, retries |-> 0, pend |-> NoKey]

NoRet == [by |-> -1, kind |-> "none", key |-> 0, seqno |-> -1]
\* the operation of task t ends in this step: what it returns or raises, the
\* waiter key its last wait_for was given (0: none) and the seqno of the
\* message wait_for returned to it (-1: none)
Returns(t, kind, k, ms) == ret' = [by |-> t, kind |-> kind, key |-> k, seqno |-> ms]
\* no operation ends in this step
NoReturn == ret' = NoRet

\* outcomes of an operation that are raised exceptions
Raised == {"timeout", "dup", "decode"}

\* what the caller of an operation gets for each outcome: an exception, the
\* None of exchange's "return None" statements, a decoded object, or the
\* value of update_dps/reset (True) and close
ResultOf(kind) ==
    IF kind \in Raised THEN "exception"
    ELSE IF kind \in {"ack", "aborted", "nokey", "notransport", "unvalid"} THEN "None"
    ELSE IF kind \in {"data", "errjson"} THEN "object"
    ELSE kind

\* _set_device_type
SetDeviceType(v) ==
    IF v >= 35 THEN DEVICE_TYPE_V35
    ELSE IF v >= 34 THEN DEVICE_TYPE_V34
    ELSE IF v = 32 THEN DEVICE_TYPE_0D
    ELSE DEVICE_TYPE_0A

\* _generate_payload: the command byte, after PAYLOAD_DICT's command_override
PayloadCmd(dt, op) ==
    IF dt = DEVICE_TYPE_0D /\ op = CMD_DP_QUERY THEN CMD_CONTROL_NEW
    ELSE IF dt \in {DEVICE_TYPE_V34, DEVICE_TYPE_V35} /\ op = CMD_CONTROL THEN CMD_CONTROL_NEW
    ELSE IF dt \in {DEVICE_TYPE_V34, DEVICE_TYPE_V35} /\ op = CMD_DP_QUERY THEN CMD_DP_QUERY_NEW
    ELSE op

\* the dpId list of PAYLOAD_DICT's UPDATE_DPS template
DefaultDpIds == {18, 19, 20}

\* a variant of PayloadBody that leaves dps_to_request out of a type_0d query
PayloadBodyNoRequest(dt, op, data, req) ==
    IF data.given
    THEN IF op = CMD_UPDATE_DPS THEN [field |-> "dpId", ids |-> data.ids]
         ELSE IF dt \in {DEVICE_TYPE_V34, DEVICE_TYPE_V35} /\ op = CMD_CONTROL
              THEN [field |-> "data", ids |-> data.ids]
         ELSE [field |-> "dps", ids |-> data.ids]
    ELSE IF op = CMD_UPDATE_DPS THEN [field |-> "dpId", ids |-> DefaultDpIds]
    ELSE NoBody

\* _generate_payload, "Add data points": where the payload carries data
\* points, and which; req is dps_to_request
PayloadBody(dt, op, data, req) ==
    IF data.given
    THEN IF op = CMD_UPDATE_DPS THEN [field |-> "dpId", ids |-> data.ids]
         ELSE IF dt \in {DEVICE_TYPE_V34, DEVICE_TYPE_V35} /\ op = CMD_CONTROL
              THEN [field |-> "data", ids |-> data.ids]
         ELSE [field |-> "dps", ids |-> data.ids]
    ELSE IF dt = DEVICE_TYPE_0D /\ op = CMD_DP_QUERY THEN [field |-> "dps", ids |-> req]
    ELSE IF op = CMD_UPDATE_DPS THEN [field |-> "dpId", ids |-> DefaultDpIds]
    ELSE NoBody

\* a variant of WaitSeqno without the RESET virtual seqno
WaitSeqnoNoReset(c, sq) == IF c = CMD_HEART_BEAT THEN HEARTBEAT_SEQNO ELSE sq

\* exchange: the seqno to wait for, sq being the seqno packed into the frame
WaitSeqno(c, sq) ==
    IF c = CMD_HEART_BEAT THEN HEARTBEAT_SEQNO
    ELSE IF c = CMD_UPDATE_DPS THEN RESET_SEQNO
    ELSE sq

\* a variant of EncodeKey that packs every frame with the device key
EncodeKeyDevice(sk) == DeviceKey

\* _encode_message: key = session_key if session_key else device_key
EncodeKey(sk) == IF sk # NoKey THEN sk ELSE DeviceKey

\* self.seqno += 1; an uncapped run follows the counter up to MaxSeqno only
\* (MaxSeqno then stands for every larger value)
Bump(sq) == IF sq < MaxSeqno THEN sq + 1 ELSE sq

\* capped runs stop assigning seqnos at MaxSeqno
CanSend(sq, capped) == capped => sq < MaxSeqno

\* if msg.seqno > 0: self.seqno = msg.seqno + 1
SeqnoFrom(m, sq) == IF m.seqno > 0 THEN m.seqno + 1 ELSE sq

\* _decode_payload, by payload kind: the outcomes it can have
DecodeOutcomes(pk) ==
    IF pk = "dps" THEN {"data"}
    ELSE IF pk = "unvalid" THEN {"unvalid"}
    ELSE IF pk = "empty" THEN {"decode"}
    ELSE {"errjson", "decode"}

\* dps_cache.update(dps) for a reply {"dps": {"1": pn}}
CacheUpdate(c, m) == [d \in DPs |-> IF d = 1 THEN m.pn ELSE c[d]]

\* MessageDispatcher.abort
Abort(L) == [k \in Keys |-> IF L[k].kind = "sem" THEN Aborted ELSE L[k]]

\* how an operation ends for its task: a host task is idle again, or goes on
\* with the detect_available_dps() that made the call; the heartbeat loop
\* sleeps after a return and leaves the loop on an exception
Finish(t, kind) ==
    IF t = 0
    THEN FreshTask(IF kind \in Raised THEN "done" ELSE "sleep")
    ELSE IF detecting[t].next # "off" THEN FreshTask("dnext")
    ELSE FreshTask("idle")

\* a variant of TransportAfter that closes a transport again after it was lost
TransportAfterAgain(t, kind) ==
    IF t = 0 /\ kind \in {"timeout", "dup", "decode"} /\ transport THEN "closing" ELSE tstate

\* a variant of TransportAfter in which every caller closes the transport on an exception
TransportAfterAny(t, kind) ==
    IF kind \in {"timeout", "dup", "decode"} /\ transport /\ tstate = "open"
    THEN "closing" ELSE tstate

\* heartbeat_loop: if self.transport: self.transport.close(), after an exception
TransportAfter(t, kind) ==
    IF t = 0 /\ kind \in Raised /\ transport /\ tstate = "open" THEN "closing" ELSE tstate

\* the step does not call listener.status_updated
NotNotified == [called |-> FALSE, dps |-> [d \in DPs |-> -1]]

\* listener.status_updated(self.dps_cache), the listener being alive
StatusUpdated(c) == [called |-> TRUE, dps |-> c]

\* a step without a call of listener.status_updated
NoCallback == notified' = NotNotified

\* _process_buffer without the exception for the handshake commands
DecodeKeyAnyCmd(sk, cmd) == IF sk # NoKey THEN sk ELSE DeviceKey

\* _process_buffer: the key a frame with command cmd is decoded with, sk the
\* dispatcher's session key
DecodeKey(sk, cmd) ==
    IF cmd \in SESSION_KEY_CMDS THEN DeviceKey
    ELSE IF sk # NoKey THEN sk ELSE DeviceKey

\* a step in which _process_buffer has no complete frame
NoDecode == key' = NoKey

\* a variant of TransportSet that finds a transport after close() has dropped it
TransportSetAlways(tr) == TRUE

\* "if self.transport:" of exchange, _exchange_quick and update_dps
TransportSet(tr) == tr

\* transport.write(data)
Wire(fr) == lastWrite' = fr

\* a step that writes nothing
NoWire == lastWrite' = NoFrame

\* ------------------------------------------------------------------- framing
\* A byte string is a sequence of cells. A cell is <<"b", n>> for the byte
\* with value n, or stands for one byte of the output of a cryptographic
\* function and names the function, the position and the inputs: two such
\* outputs are equal exactly when function, key and inputs are.
PREFIX_55AA == 21930
SUFFIX_55AA == 43605
PREFIX_6699 == 26265
SUFFIX_6699 == 39270
HEADER_SIZE_55AA == 16
HEADER_SIZE_6699 == 18
RETCODE_SIZE == 4
FOOTER_SIZE_55AA_CRC == 8
FOOTER_SIZE_55AA_HMAC == 36
MAX_PAYLOAD_SIZE == 2000
GCM_NONCE_SIZE == 12
GCM_TAG_SIZE == 16
AES_BLOCK_SIZE == 16

\* the byte with value n
B(n) == <<"b", n>>

\* bytes(ns)
Bytes(ns) == [i \in 1..Len(ns) |-> B(ns[i])]

\* struct.pack(">I", n)
U32(n) ==
    Bytes(<<(n \div 16777216) % 256, (n \div 65536) % 256, (n \div 256) % 256, n % 256>>)

\* struct.unpack(">I", cs)[0]; four bytes that are not all given by value, or
\* whose first byte is above 127, read as a number above every number the
\* code compares with
Val(cs) ==
    IF \A i \in 1..4 : cs[i][1] = "b" /\ cs[1][2] < 128
    THEN ((cs[1][2] * 256 + cs[2][2]) * 256 + cs[3][2]) * 256 + cs[4][2]
    ELSE 2147483647

\* s[a:b] of Python, a and b of either sign
Slice(s, a, b) ==
    LET n == Len(s)
        lo == IF a < 0 THEN (IF n + a < 0 THEN 0 ELSE n + a) ELSE (IF a > n THEN n ELSE a)
        hi == IF b < 0 THEN (IF n + b < 0 THEN 0 ELSE n + b) ELSE (IF b > n THEN n ELSE b)
    IN  IF hi <= lo THEN <<>> ELSE SubSeq(s, lo + 1, hi)

\* binascii.crc32(data) & 0xFFFFFFFF, packed
crc32(data) == [i \in 1..4 |-> <<"crc", i, data>>]

\* hmac.new(k, data, sha256).digest()
hmac_sha256(k, data) == [i \in 1..32 |-> <<"mac", i, k, data>>]

\* AESCipher.encrypt_ecb(pt, pad=True): PKCS7 pads to the next block
encrypt_ecb(k, pt) ==
    [i \in 1..(AES_BLOCK_SIZE * (Len(pt) \div AES_BLOCK_SIZE + 1)) |-> <<"ecb", i, k, pt>>]

\* the CTR key stream of GCM applied to byte i
ctr_encrypt(k, nonce, i, c) == <<"gcm", i, k, nonce, c>>

\* and taken off again; a byte that is not this key stream's gives another byte
ctr_decrypt(k, nonce, i, c) ==
    IF c[1] = "gcm" /\ c[2] = i /\ c[3] = k /\ c[4] = nonce THEN c[5] ELSE <<"junk", i, c>>

\* AESCipher.encrypt_gcm
encrypt_gcm(k, pt, nonce, aad) ==
    [ciphertext |-> [i \in 1..Len(pt) |-> ctr_encrypt(k, nonce, i, pt[i])],
     tag |-> [i \in 1..GCM_TAG_SIZE |-> <<"tag", i, k, nonce, aad, pt>>]]

\* a decryption that raised
Undecrypted == [ok |-> FALSE, pt |-> <<>>]

\* AESCipher.decrypt_gcm_noauth
decrypt_gcm_noauth(k, ct, nonce) ==
    IF Len(nonce) # GCM_NONCE_SIZE THEN Undecrypted
    ELSE [ok |-> TRUE, pt |-> [i \in 1..Len(ct) |-> ctr_decrypt(k, nonce, i, ct[i])]]

\* AESCipher.decrypt_gcm; aad is <<>> when none is given
decrypt_gcm(k, ct, nonce, tag, aad) ==
    IF Len(nonce) # GCM_NONCE_SIZE \/ Len(tag) # GCM_TAG_SIZE THEN Undecrypted
    ELSE LET pt == decrypt_gcm_noauth(k, ct, nonce).pt
         IN  IF tag = encrypt_gcm(k, pt, nonce, aad).tag
             THEN [ok |-> TRUE, pt |-> pt]
             ELSE Undecrypted

\* parse_header raised DecodeError
NoHeader ==
    [st |-> "DecodeError", prefix |-> 0, seqno |-> 0, cmd |-> 0, length |-> 0, total_length |-> 0]

\* _parse_header_55aa
parse_header_55aa(data) ==
    IF Len(data) < HEADER_SIZE_55AA THEN NoHeader
    ELSE LET length == Val(Slice(data, 12, 16))
         IN  IF length > MAX_PAYLOAD_SIZE THEN NoHeader
             ELSE [st |-> "ok", prefix |-> Val(Slice(data, 0, 4)),
                   seqno |-> Val(Slice(data, 4, 8)), cmd |-> Val(Slice(data, 8, 12)),
                   length |-> length, total_length |-> HEADER_SIZE_55AA + length]

\* _parse_header_6699
parse_header_6699(data) ==
    IF Len(data) < HEADER_SIZE_6699 THEN NoHeader
    ELSE LET length == Val(Slice(data, 14, 18))
         IN  IF length > MAX_PAYLOAD_SIZE THEN NoHeader
             ELSE [st |-> "ok", prefix |-> Val(Slice(data, 0, 4)),
                   seqno |-> Val(Slice(data, 6, 10)), cmd |-> Val(Slice(data, 10, 14)),
                   length |-> length, total_length |-> HEADER_SIZE_6699 + length + 4]

\* parse_header
parse_header(data) ==
    IF Len(data) < 4 THEN NoHeader
    ELSE IF Slice(data, 0, 4) = U32(PREFIX_6699) THEN parse_header_6699(data)
    ELSE IF Slice(data, 0, 4) = U32(PREFIX_55AA) THEN parse_header_55aa(data)
    ELSE NoHeader

\* _pack_message_55aa
pack_message_55aa(seq, cmd, payload, k, encrypt, use_hmac) ==
    LET carried == IF encrypt /\ payload # <<>> THEN encrypt_ecb(k, payload) ELSE payload
        footer_size == IF use_hmac THEN FOOTER_SIZE_55AA_HMAC ELSE FOOTER_SIZE_55AA_CRC
        length == Len(carried) + footer_size
        header == U32(PREFIX_55AA) \o U32(seq) \o U32(cmd) \o U32(length)
        data_to_sign == header \o carried
        footer == (IF use_hmac THEN hmac_sha256(k, data_to_sign) ELSE crc32(data_to_sign))
                  \o U32(SUFFIX_55AA)
    IN  header \o carried \o footer

\* _pack_message_6699; nonce is what os.urandom gave
pack_message_6699(seq, cmd, payload, k, encrypt, nonce) ==
    LET length == GCM_NONCE_SIZE + Len(payload) + GCM_TAG_SIZE
        header == U32(PREFIX_6699) \o Bytes(<<0, 0>>) \o U32(seq) \o U32(cmd) \o U32(length)
        aad == Slice(header, 4, Len(header))
        enc == encrypt_gcm(k, payload, nonce, aad)
    IN  header \o nonce \o enc.ciphertext \o enc.tag \o U32(SUFFIX_6699)

\* pack_message
pack_message(seq, cmd, payload, k, v, encrypt, nonce) ==
    IF v >= 35 THEN pack_message_6699(seq, cmd, payload, k, encrypt, nonce)
    ELSE pack_message_55aa(seq, cmd, payload, k, encrypt, v >= 34)

\* what unpack_message gives when it raises: DecodeError or struct.error
NoMessage(st) ==
    [st |-> st, seqno |-> 0, cmd |-> 0, payload |-> <<>>, retcode |-> 0, crc_good |-> FALSE]

\* TuyaMessage
Message(h, payload, retcode, crc_good) ==
    [st |-> "ok", seqno |-> h.seqno, cmd |-> h.cmd, payload |-> payload,
     retcode |-> retcode, crc_good |-> crc_good]

\* a variant of FooterGood that takes every signature as good
FooterGoodAlways(footer_data, signature) == TRUE

\* _unpack_message_55aa: crc_good; a suffix mismatch is logged only
FooterGood(footer_data, signature) ==
    Slice(footer_data, 0, Len(footer_data) - 4) = signature

\* _unpack_message_55aa: the four bytes after the header are taken as a retcode
IsRetcode(data, payload_start) ==
    /\ Len(data) >= payload_start + RETCODE_SIZE
    /\ Val(Slice(data, payload_start, payload_start + RETCODE_SIZE)) < 100

\* _unpack_message_55aa
unpack_message_55aa(data, k, h, use_hmac, no_retcode) ==
    LET footer_size == IF use_hmac THEN FOOTER_SIZE_55AA_HMAC ELSE FOOTER_SIZE_55AA_CRC
        taken == ~no_retcode /\ IsRetcode(data, HEADER_SIZE_55AA)
        retcode == IF taken
                   THEN Val(Slice(data, HEADER_SIZE_55AA, HEADER_SIZE_55AA + RETCODE_SIZE))
                   ELSE 0
        payload_start == IF taken THEN HEADER_SIZE_55AA + RETCODE_SIZE ELSE HEADER_SIZE_55AA
        payload_end == HEADER_SIZE_55AA + h.length - footer_size
        payload == Slice(data, payload_start, payload_end)
        footer_data == Slice(data, payload_end, payload_end + footer_size)
        signed == Slice(data, 0, payload_end)
        signature == IF use_hmac THEN hmac_sha256(k, signed) ELSE crc32(signed)
    IN  IF Len(data) < h.total_length THEN NoMessage("DecodeError")
        ELSE IF Len(footer_data) # footer_size THEN NoMessage("struct.error")
        ELSE Message(h, payload, retcode, FooterGood(footer_data, signature))

\* _unpack_message_6699
unpack_message_6699(data, k, h) ==
    LET nonce == Slice(data, HEADER_SIZE_6699, HEADER_SIZE_6699 + GCM_NONCE_SIZE)
        payload_start == HEADER_SIZE_6699 + GCM_NONCE_SIZE
        payload_end == HEADER_SIZE_6699 + h.length - GCM_TAG_SIZE
        ciphertext == Slice(data, payload_start, payload_end)
        tag == Slice(data, payload_end, payload_end + GCM_TAG_SIZE)
        aad == Slice(data, 4, HEADER_SIZE_6699)
        d1 == decrypt_gcm(k, ciphertext, nonce, tag, aad)
        d2 == decrypt_gcm(k, ciphertext, nonce, tag, <<>>)
        d3 == decrypt_gcm_noauth(k, ciphertext, nonce)
        pt == IF d1.ok THEN d1.pt ELSE IF d2.ok THEN d2.pt ELSE IF d3.ok THEN d3.pt ELSE <<>>
        crc_good == d1.ok \/ d2.ok
        strip == Len(pt) > 4 /\ Slice(pt, 0, 4) = Bytes(<<0, 0, 0, 0>>)
    IN  IF Len(data) < h.total_length THEN NoMessage("DecodeError")
        ELSE Message(h, IF strip THEN Slice(pt, 4, Len(pt)) ELSE pt, 0, crc_good)

\* unpack_message, with the header parse_header gave
unpack_message(data, k, v, h) ==
    IF h.prefix = PREFIX_6699 THEN unpack_message_6699(data, k, h)
    ELSE unpack_message_55aa(data, k, h, v >= 34, FALSE)

\* what _process_buffer leaves behind: the buffer, the messages it gave to
\* _dispatch, and the error that left it uncaught ("none": it returned)
Processed(buf, msgs, err) == [buffer |-> buf, msgs |-> msgs, raised |-> err]

\* a variant of Partial that drops an incomplete header or frame
PartialDropped(buf) == <<>>

\* _process_buffer: break on an incomplete header or frame, the buffer is kept
Partial(buf) == buf

RECURSIVE process_buffer(_, _, _, _)
\* _process_buffer: sk is the dispatcher's session key, v its protocol
\* version; only DecodeError is caught
process_buffer(buf, msgs, sk, v) ==
    IF buf = <<>> THEN Processed(buf, msgs, "none")
    ELSE LET header_size == IF Slice(buf, 0, 4) = U32(PREFIX_6699)
                            THEN HEADER_SIZE_6699 ELSE HEADER_SIZE_55AA
             h == parse_header(buf)
             m == unpack_message(buf, DecodeKey(sk, h.cmd), v, h)
         IN  IF Len(buf) < header_size THEN Processed(Partial(buf), msgs, "none")
             ELSE IF h.st # "ok" THEN Processed(<<>>, msgs, "none")
             ELSE IF Len(buf) < h.total_length THEN Processed(Partial(buf), msgs, "none")
             ELSE IF m.st = "struct.error" THEN Processed(buf, msgs, m.st)
             ELSE IF m.st # "ok" THEN Processed(<<>>, msgs, "none")
             ELSE process_buffer(Slice(buf, h.total_length, Len(buf)), Append(msgs, m), sk, v)

\* a pack_message call that has not been made
NoCodec ==
    [phase |-> "none", seqno |-> 0, cmd |-> 0, payload |-> <<>>, encrypt |-> FALSE,
     encoded |-> <<>>, frame |-> <<>>, at |-> 0, msg |-> NoMessage("none")]

\* TuyaProtocol.__init__ and connection_made
Constructed ==
    /\ version \in Versions
    /\ key = NoKey
    /\ seqno = 1
    /\ session_key = NoKey
    /\ d_session_key = NoKey
    /\ local_nonce \in LocalNonces
    /\ remote_nonce = -1
    /\ device_type = SetDeviceType(version)
    /\ dps_cache = [d \in DPs |-> -1]
    /\ transport = TRUE
    /\ tstate = "open"
    /\ heartbeater = FALSE
    /\ listeners = [k \in Keys |-> Absent]
    /\ tasks = [t \in Tasks |-> FreshTask(IF t = 0 THEN "none" ELSE "idle")]
    /\ lastWrite = NoFrame
    /\ ret = NoRet
    /\ ops = 0
    /\ recvd = 0
    /\ disconnected = 0
    /\ notified = NotNotified
    /\ dps_to_request = {}
    /\ detecting = [t \in Callers |-> NotDetecting]
    /\ buffer = <<>>
    /\ dispatched = <<>>
    /\ raised = "none"
    /\ pos = 0

\* the session as it is once connected; the peer's bytes are followed frame by
\* frame (DataReceived), not byte by byte
Init ==
    /\ Constructed
    /\ stream = <<>>
    /\ codec = NoCodec

\* ------------------------------------------------------- exchange, in parts
\* Each part below ends a step of task t.  It is given what the step has
\* made of the task (tk), the waiter table (L) and the counter (sq) so far,
\* and fixes the next value of every variable but local_nonce, ops, recvd,
\* dps_to_request, detecting and the four that only close(),
\* start_heartbeat() and connection_lost() change.

\* the operation of task t ends with outcome kind, nothing written; dt is
\* the device type the operation leaves
EndAs(t, tk, L, sq, kind, dt) ==
    /\ seqno' = sq
    /\ listeners' = L
    /\ tasks' = [tasks EXCEPT ![t] = Finish(t, kind)]
    /\ Returns(t, kind, tk.wkey, -1)
    /\ tstate' = TransportAfter(t, kind)
    /\ NoCallback
    /\ NoDecode
    /\ NoWire
    /\ device_type' = dt
    /\ UNCHANGED <<session_key, d_session_key, remote_nonce, dps_cache>>

\* the same, the device type being left as it is
End(t, tk, L, sq, kind) == EndAs(t, tk, L, sq, kind, device_type)

\* exchange, from "Generate and encode payload" to wait_for's registration
SendCommand(t, tk, L, sk, dsk, sq, rn, dt, capped) ==
    LET c == PayloadCmd(dt, tk.op)
        k == EncodeKey(sk)
        wk == WaitSeqno(c, sq)
        tk1 == [tk EXCEPT !.cmd = c, !.wkey = wk, !.pc = "wait"]
        kind == IF ~TransportSet(transport) THEN "notransport"
                ELSE IF Has(L, wk) THEN "dup"
                ELSE "wait"
    IN  /\ CanSend(sq, capped)
        /\ seqno' = Bump(sq)
        /\ NoCallback
        /\ NoDecode
        /\ IF TransportSet(transport)
           THEN Wire(Frame(sq, c, k, t, PayloadBody(dt, tk.op, tk.data, dps_to_request)))
           ELSE NoWire
        /\ listeners' = IF kind = "wait" THEN [L EXCEPT ![wk] = Sem(t)] ELSE L
        /\ tasks' = [tasks EXCEPT ![t] = IF kind = "wait" THEN tk1 ELSE Finish(t, kind)]
        /\ IF kind = "wait" THEN NoReturn
           ELSE Returns(t, kind, IF kind = "dup" THEN wk ELSE 0, -1)
        /\ tstate' = TransportAfter(t, kind)
        /\ session_key' = sk
        /\ d_session_key' = dsk
        /\ remote_nonce' = rn
        /\ device_type' = dt
        /\ dps_cache' = dps_cache

\* _exchange_quick up to its first wait_for: pack with the device key, write, wait
QuickSend(t, tk, L, sq, rn, dt, c, nextpc, capped) ==
    LET tk1 == [tk EXCEPT !.retries = RECV_RETRIES, !.wkey = SESS_KEY_SEQNO, !.pc = nextpc]
        dup == Has(L, SESS_KEY_SEQNO)
    IN  /\ CanSend(sq, capped)
        /\ seqno' = Bump(sq)
        /\ NoCallback
        /\ NoDecode
        /\ Wire(Frame(sq, c, DeviceKey, t, NoBody))
        /\ listeners' = IF dup THEN L ELSE [L EXCEPT ![SESS_KEY_SEQNO] = Sem(t)]
        /\ tasks' = [tasks EXCEPT ![t] = IF dup THEN Finish(t, "dup") ELSE tk1]
        /\ IF dup THEN Returns(t, "dup", SESS_KEY_SEQNO, -1) ELSE NoReturn
        /\ tstate' = TransportAfter(t, IF dup THEN "dup" ELSE "wait")
        /\ remote_nonce' = rn
        /\ device_type' = dt
        /\ UNCHANGED <<session_key, d_session_key, dps_cache>>

\* a variant of NegotiateDone that stores the session key in the session only
NegotiateDoneSessionOnly(t, tk, L, sq, rn, capped) ==
    SendCommand(t, tk, L, tk.pend, d_session_key, sq, rn, device_type, capped)

\* _negotiate_session_key, after step 3: store the session key; then exchange goes on
NegotiateDone(t, tk, L, sq, rn, capped) ==
    SendCommand(t, tk, L, tk.pend, tk.pend, sq, rn, device_type, capped)

\* _negotiate_session_key, from the response of step 1 to the wait of step 3
NegotiateResp(t, tk, L, sq, e, capped) ==
    IF e.cmd # CMD_SESS_KEY_NEG_RESP \/ e.pk # "nonce"
    THEN End(t, tk, L, sq, "nokey")
    ELSE LET tkr == [tk EXCEPT !.pend = DeriveKey(version, local_nonce, e.pn)]
         IN  IF TransportSet(transport)
             THEN QuickSend(t, tkr, L, sq, e.pn, device_type, CMD_SESS_KEY_NEG_FINISH, "hs3", capped)
             ELSE NegotiateDone(t, tkr, L, sq, e.pn, capped)

\* _exchange_quick: a wait that timed out, was aborted or gave an empty payload
QuickRetry(t, tk, L, capped) ==
    LET n == tk.retries - 1
        tkn == [tk EXCEPT !.retries = n]
    IN  IF n > 0
        THEN IF Has(L, SESS_KEY_SEQNO)
             THEN End(t, tkn, L, seqno, "dup")
             ELSE /\ listeners' = [L EXCEPT ![SESS_KEY_SEQNO] = Sem(t)]
                  /\ tasks' = [tasks EXCEPT ![t] = tkn]
                  /\ NoReturn
                  /\ NoCallback
                  /\ NoDecode
                  /\ NoWire
                  /\ UNCHANGED <<seqno, tstate, session_key, d_session_key, remote_nonce,
                                 device_type, dps_cache>>
        ELSE IF tk.pc = "hs1"
             THEN End(t, tkn, L, seqno, "nokey")
             ELSE NegotiateDone(t, tkn, L, seqno, remote_nonce, capped)

\* exchange, after wait_for returned a message: ACK or _decode_payload
ReplyOutcomes(c, pk) ==
    IF c \in {CMD_HEART_BEAT, CMD_CONTROL, CMD_CONTROL_NEW} /\ pk = "empty"
    THEN {"ack"}
    ELSE DecodeOutcomes(pk)

\* exchange from "if msg is None" on, and status()'s merge into the DP cache
Reply(t, tk, L, e) ==
    \E o \in ReplyOutcomes(tk.cmd, e.pk) :
        /\ listeners' = L
        /\ tasks' = [tasks EXCEPT ![t] = Finish(t, o)]
        /\ Returns(t, o, tk.wkey, e.seqno)
        /\ tstate' = TransportAfter(t, o)
        /\ device_type' = IF o = "unvalid" THEN DEVICE_TYPE_0D ELSE device_type
        /\ dps_cache' = IF o = "data" /\ tk.op = CMD_DP_QUERY
                        THEN CacheUpdate(dps_cache, e) ELSE dps_cache
        /\ NoCallback
        /\ NoDecode
        /\ NoWire
        /\ UNCHANGED <<seqno, session_key, d_session_key, remote_nonce>>

\* wait_for, after the await: e is the table entry found (or TimedOut);
\* the entry is deleted (timeout) or popped, and the caller goes on
AfterWait(t, e, capped) ==
    LET tk == tasks[t]
        L == [listeners EXCEPT ![tk.wkey] = Absent]
    IN  IF tk.pc = "wait"
        THEN IF e.kind = "timeout" THEN End(t, tk, L, seqno, "timeout")
             ELSE IF e.kind = "none" THEN End(t, tk, L, seqno, "aborted")
             ELSE Reply(t, tk, L, e)
        ELSE IF e.kind = "msg" /\ e.pk # "empty"
             THEN IF tk.pc = "hs1"
                  THEN NegotiateResp(t, tk, L, SeqnoFrom(e, seqno), e, capped)
                  ELSE NegotiateDone(t, tk, L, SeqnoFrom(e, seqno), remote_nonce, capped)
             ELSE QuickRetry(t, tk, L, capped)

\* exchange(command, data) up to its first suspension
ExchangeBody(t, op, data, dt, capped) ==
    LET tk == [FreshTask(tasks[t].pc) EXCEPT !.op = op, !.data = data]
    IN  IF version >= 34 /\ session_key = NoKey
        THEN \E ln \in LocalNonces :
                /\ local_nonce' = ln
                /\ IF TransportSet(transport)
                   THEN QuickSend(t, tk, listeners, seqno, remote_nonce, dt,
                                  CMD_SESS_KEY_NEG_START, "hs1", capped)
                   ELSE EndAs(t, tk, listeners, seqno, "nokey", dt)
        ELSE /\ local_nonce' = local_nonce
             /\ SendCommand(t, tk, listeners, session_key, d_session_key, seqno,
                            remote_nonce, dt, capped)

Waiting == {"hs1", "hs3", "wait"}

\* the host starts one more operation
HostOp ==
    /\ Calm
    /\ ops < MaxOps
    /\ ops' = ops + 1
    /\ recvd' = recvd

\* ------------------------------------------------------------------ actions
\* a host task calls heartbeat(), status() or set_dp()/set_dps()
Exchange(t, op, capped) ==
    /\ tasks[t].pc = "idle"
    /\ HostOp
    /\ ExchangeBody(t, op, IF op = CMD_CONTROL THEN Given(DPs) ELSE NoData, device_type, capped)
    /\ UNCHANGED <<wire, version, dps_to_request, detecting, transport, heartbeater, disconnected>>

\* update_dps without its test of the protocol version
UpdateDpsSupportedAlways(v) == TRUE

\* update_dps: if self.protocol_version < 3.2: return True
UpdateDpsSupported(v) == v >= 32

\* a host task calls update_dps(dps) with a list (empty or not)
UpdateDps(t, nonempty, capped) ==
    /\ tasks[t].pc = "idle"
    /\ HostOp
    /\ tasks' = [tasks EXCEPT ![t] = Finish(t, "true")]
    /\ Returns(t, "true", 0, -1)
    /\ NoCallback
    /\ NoDecode
    /\ IF UpdateDpsSupported(version) /\ nonempty
       THEN /\ CanSend(seqno, capped)
            /\ seqno' = Bump(seqno)
            /\ IF TransportSet(transport)
               THEN Wire(Frame(seqno, PayloadCmd(device_type, CMD_UPDATE_DPS),
                               EncodeKey(session_key), t,
                               PayloadBody(device_type, CMD_UPDATE_DPS, Given(DPs),
                                           dps_to_request)))
               ELSE NoWire
       ELSE /\ seqno' = seqno
            /\ NoWire
    /\ UNCHANGED <<wire, version, dps_to_request, detecting, session_key, d_session_key, local_nonce, remote_nonce, device_type,
                   dps_cache, transport, tstate, heartbeater, listeners, disconnected>>

\* the dpIds a modelled reset() is called with: None or a list
ResetArgs == {NoData, Given(DPs)}

\* a host task calls reset(dpIds)
Reset(t, data, capped) ==
    /\ tasks[t].pc = "idle"
    /\ HostOp
    /\ IF version >= 33
       THEN ExchangeBody(t, CMD_UPDATE_DPS, data, DEVICE_TYPE_0A, capped)
       ELSE /\ tasks' = [tasks EXCEPT ![t] = Finish(t, "true")]
            /\ Returns(t, "true", 0, -1)
            /\ NoCallback
            /\ NoDecode
            /\ NoWire
            /\ UNCHANGED <<seqno, session_key, d_session_key, local_nonce, remote_nonce,
                           device_type, dps_cache, tstate, listeners>>
    /\ UNCHANGED <<wire, version, dps_to_request, detecting, transport, heartbeater, disconnected>>

\* the host calls add_dps_to_request(d)
AddDpsToRequest(d) ==
    /\ Calm
    /\ d \notin dps_to_request
    /\ dps_to_request' = dps_to_request \cup {d}
    /\ NoReturn
    /\ NoCallback
    /\ NoDecode
    /\ NoWire
    /\ UNCHANGED <<wire, version, detecting, seqno, session_key, d_session_key, local_nonce,
                   remote_nonce, device_type, dps_cache, transport, tstate, heartbeater,
                   listeners, tasks, ops, recvd, disconnected>>

\* a host task calls detect_available_dps(): the cache is replaced by an
\* empty one; the heartbeat loop follows
Detect(t) ==
    /\ tasks[t].pc = "idle"
    /\ HostOp
    /\ dps_cache' = [d \in DPs |-> -1]
    /\ detecting' = [detecting EXCEPT ![t] = [next |-> "hb", att |-> 0, rng |-> 1, upd |-> FALSE]]
    /\ tasks' = [tasks EXCEPT ![t] = FreshTask("dnext")]
    /\ NoReturn
    /\ NoCallback
    /\ NoDecode
    /\ NoWire
    /\ UNCHANGED <<wire, version, dps_to_request, seqno, session_key, d_session_key, local_nonce,
                   remote_nonce, device_type, transport, tstate, heartbeater, listeners,
                   disconnected>>

\* a retry loop that never reaches its last attempt
LastAttemptNever(att) == FALSE

\* for attempt in range(retry_count): attempt att is the last one
LastAttempt(att) == att >= RETRY_COUNT - 1

\* a host task calls update_dps() without a list: detect_available_dps() when
\* the cache is empty; no DP of the model is in UPDATE_DPS_WHITELIST, so the
\* list made from the cache is empty and nothing is written
UpdateDpsNone(t) ==
    /\ tasks[t].pc = "idle"
    /\ HostOp
    /\ IF UpdateDpsSupported(version) /\ \A x \in DPs : dps_cache[x] = -1
       THEN /\ detecting' = [detecting EXCEPT ![t] = [next |-> "hb", att |-> 0, rng |-> 1, upd |-> TRUE]]
            /\ tasks' = [tasks EXCEPT ![t] = FreshTask("dnext")]
            /\ NoReturn
       ELSE /\ detecting' = detecting
            /\ tasks' = [tasks EXCEPT ![t] = Finish(t, "true")]
            /\ Returns(t, "true", 0, -1)
    /\ NoCallback
    /\ NoDecode
    /\ NoWire
    /\ UNCHANGED <<wire, version, dps_to_request, dps_cache, seqno, session_key, d_session_key,
                   local_nonce, remote_nonce, device_type, transport, tstate, heartbeater,
                   listeners, disconnected>>

\* detect_available_dps goes on without awaiting: to a sleep, to the next of
\* its statements, or to its return
DetectStep(t, d, p, req, cache, done) ==
    /\ detecting' = [detecting EXCEPT ![t] = IF done THEN NotDetecting ELSE d]
    /\ tasks' = [tasks EXCEPT ![t] = FreshTask(IF done THEN "idle" ELSE p)]
    /\ dps_to_request' = req
    /\ dps_cache' = cache
    /\ IF done THEN Returns(t, IF d.upd THEN "true" ELSE "detected", 0, -1) ELSE NoReturn
    /\ NoCallback
    /\ NoDecode
    /\ NoWire
    /\ UNCHANGED <<seqno, session_key, d_session_key, local_nonce, remote_nonce, device_type,
                   tstate, listeners>>

\* detect_available_dps, after the retry loop of a range: the early exit for
\* type_0a, the next range, or the return
AfterRange(t, d, cache) ==
    IF (device_type = DEVICE_TYPE_0A /\ \E x \in DPs : cache[x] # -1) \/ d.rng = Len(Ranges)
    THEN DetectStep(t, d, "idle", dps_to_request, cache, TRUE)
    ELSE DetectStep(t, [d EXCEPT !.next = "range", !.att = 0, !.rng = d.rng + 1], "dnext",
                    dps_to_request, cache, FALSE)

\* detect_available_dps between two awaits; ret is how the heartbeat() or
\* status() it called has just ended
DetectContinue(t, capped) ==
    LET d == detecting[t]
    IN  /\ tasks[t].pc = "dnext"
        /\ IF d.next = "hb"
           THEN /\ detecting' = [detecting EXCEPT ![t] = [d EXCEPT !.next = "hbout"]]
                /\ dps_to_request' = dps_to_request
                /\ ExchangeBody(t, CMD_HEART_BEAT, NoData, device_type, capped)
           ELSE IF d.next = "st"
           THEN /\ detecting' = [detecting EXCEPT ![t] = [d EXCEPT !.next = "stout"]]
                /\ dps_to_request' = dps_to_request
                /\ ExchangeBody(t, CMD_DP_QUERY, NoData, device_type, capped)
           ELSE /\ local_nonce' = local_nonce
                /\ IF d.next = "range"
                   THEN DetectStep(t, [d EXCEPT !.next = "st", !.att = 0], "dnext",
                                   RangeDps(d.rng), dps_cache, FALSE)
                   ELSE IF d.next = "hbout"
                   THEN IF ret.kind \notin Raised
                        THEN DetectStep(t, [d EXCEPT !.next = "range", !.att = 0, !.rng = 1], "dsleep",
                                        dps_to_request, dps_cache, FALSE)
                        ELSE IF ~LastAttempt(d.att)
                        THEN DetectStep(t, [d EXCEPT !.next = "hb", !.att = d.att + 1],
                                        "dsleep", dps_to_request, dps_cache, FALSE)
                        ELSE DetectStep(t, [d EXCEPT !.next = "range", !.att = 0, !.rng = 1], "dnext",
                                        dps_to_request, dps_cache, FALSE)
                   \* status() has merged these dps already; the update here repeats it
                   ELSE IF ret.kind = "data"
                        THEN AfterRange(t, d, CacheUpdate(dps_cache, [pn |-> dps_cache[1]]))
                        ELSE IF ret.kind \notin Raised \/ LastAttempt(d.att)
                        THEN AfterRange(t, d, dps_cache)
                        ELSE DetectStep(t, [d EXCEPT !.next = "st", !.att = d.att + 1],
                                        "dsleep", dps_to_request, dps_cache, FALSE)
        /\ UNCHANGED <<wire, version, transport, heartbeater, ops, recvd, disconnected>>

\* an asyncio.sleep of detect_available_dps ends
DetectWake(t) ==
    /\ Calm
    /\ tasks[t].pc = "dsleep"
    /\ tasks' = [tasks EXCEPT ![t] = FreshTask("dnext")]
    /\ NoReturn
    /\ NoCallback
    /\ NoDecode
    /\ NoWire
    /\ UNCHANGED <<wire, version, dps_to_request, detecting, seqno, session_key, d_session_key,
                   local_nonce, remote_nonce, device_type, dps_cache, transport, tstate,
                   heartbeater, listeners, ops, recvd, disconnected>>

\* start_heartbeat(); one heartbeat task is followed at a time
StartHeartbeat ==
    /\ ~heartbeater
    /\ tasks[0].pc \in {"none", "done", "cancelled"}
    /\ HostOp
    /\ heartbeater' = TRUE
    /\ tasks' = [tasks EXCEPT ![0] = FreshTask("sleep")]
    /\ NoReturn
    /\ NoCallback
    /\ NoDecode
    /\ NoWire
    /\ UNCHANGED <<wire, version, dps_to_request, detecting, seqno, session_key, d_session_key, local_nonce, remote_nonce,
                   device_type, dps_cache, transport, tstate, listeners, disconnected>>

\* heartbeat_loop: await self.heartbeat(), at its start and after each sleep
HeartbeatLoop(capped) ==
    /\ Calm
    /\ tasks[0].pc = "sleep"
    /\ ExchangeBody(0, CMD_HEART_BEAT, NoData, device_type, capped)
    /\ UNCHANGED <<wire, version, dps_to_request, detecting, transport, heartbeater, ops, recvd, disconnected>>

\* asyncio.wait_for expires while the semaphore is still unreleased
Timeout(t, capped) ==
    /\ Calm
    /\ tasks[t].pc \in Waiting
    /\ listeners[tasks[t].wkey] = Sem(t)
    /\ AfterWait(t, TimedOut, capped)
    /\ UNCHANGED <<wire, version, dps_to_request, detecting, local_nonce, transport, heartbeater, ops, recvd, disconnected>>

\* the task resumes after its semaphore was released (by _dispatch or abort)
Resume(t, capped) ==
    /\ Calm
    /\ tasks[t].pc \in Waiting
    /\ listeners[tasks[t].wkey].kind \in {"none", "msg"}
    /\ AfterWait(t, listeners[tasks[t].wkey], capped)
    /\ UNCHANGED <<wire, version, dps_to_request, detecting, local_nonce, transport, heartbeater, ops, recvd, disconnected>>

\* a variant of DispatchSpecial that stores the frame under a key nobody registered
DispatchSpecialUnregistered(L, k, m) == [L EXCEPT ![k] = Stored(m)]

\* a variant of DispatchSpecial that stores the frame over a message already stored
DispatchSpecialAgain(L, k, m) == IF Has(L, k) THEN [L EXCEPT ![k] = Stored(m)] ELSE L

\* _dispatch_special
DispatchSpecial(L, k, m) ==
    IF Has(L, k) /\ L[k].kind = "sem" THEN [L EXCEPT ![k] = Stored(m)] ELSE L

\* a variant of Dispatch that completes the oldest pending seqno waiter first
DispatchFirstPending(L, m) ==
    LET P == {k \in 1..MaxSeqno : L[k].kind = "sem"}
    IN  IF P = {} THEN L
        ELSE [L EXCEPT ![CHOOSE k \in P : \A j \in P : k <= j] = Stored(m)]

\* _dispatch: the waiter table after routing m
Dispatch(L, m) ==
    IF Has(L, m.seqno)
    THEN IF L[m.seqno].kind = "sem" THEN [L EXCEPT ![m.seqno] = Stored(m)] ELSE L
    ELSE IF m.cmd = CMD_HEART_BEAT THEN DispatchSpecial(L, HEARTBEAT_SEQNO, m)
    ELSE IF m.cmd = CMD_SESS_KEY_NEG_RESP THEN DispatchSpecial(L, SESS_KEY_SEQNO, m)
    ELSE IF m.cmd \in {CMD_UPDATE_DPS, CMD_STATUS} /\ Has(L, RESET_SEQNO)
         THEN DispatchSpecial(L, RESET_SEQNO, m)
    ELSE L

\* _dispatch: m goes to status_callback
ToStatusCallback(L, m) ==
    /\ ~Has(L, m.seqno)
    /\ m.cmd = CMD_STATUS
    /\ ~Has(L, RESET_SEQNO)

\* a variant of HandleStatusUpdate that reports the cache without merging the frame's dps
HandleStatusUpdateUnmerged(m) ==
    /\ seqno' = SeqnoFrom(m, seqno)
    /\ dps_cache' = dps_cache
    /\ device_type' = IF m.pk = "unvalid" THEN DEVICE_TYPE_0D ELSE device_type
    /\ notified' = IF m.pk = "dps" THEN StatusUpdated(dps_cache) ELSE NotNotified

\* _handle_status_update; _decode_payload gives the dps of a "dps" payload,
\* None (and type_0d) for "data unvalid"
HandleStatusUpdate(m) ==
    /\ seqno' = SeqnoFrom(m, seqno)
    /\ dps_cache' = IF m.pk = "dps" THEN CacheUpdate(dps_cache, m) ELSE dps_cache
    /\ device_type' = IF m.pk = "unvalid" THEN DEVICE_TYPE_0D ELSE device_type
    /\ notified' = IF m.pk = "dps" THEN StatusUpdated(dps_cache') ELSE NotNotified

\* data_received with one frame, decoded to m: _dispatch and
\* _handle_status_update; the receive buffer is empty before and after
Receive(m) ==
    /\ Calm
    /\ tstate = "open"
    /\ recvd < MaxRecv
    /\ recvd' = recvd + 1
    /\ listeners' = Dispatch(listeners, m)
    /\ IF ToStatusCallback(listeners, m)
       THEN HandleStatusUpdate(m)
       ELSE /\ UNCHANGED <<seqno, dps_cache, device_type>>
            /\ NoCallback
    /\ key' = DecodeKey(d_session_key, m.cmd)
    /\ NoReturn
    /\ NoWire
    /\ UNCHANGED <<version, dps_to_request, detecting, session_key, d_session_key, local_nonce, remote_nonce, transport,
                   tstate, heartbeater, tasks, ops, disconnected>>

\* data_received with one frame, decoded to m
DataReceived(m) == Receive(m) /\ UNCHANGED wire

\* the same, the messages given to _dispatch being kept in their order
DataReceivedInOrder(m) ==
    /\ Receive(m)
    /\ dispatched' = Append(dispatched, m)
    /\ UNCHANGED <<buffer, raised, stream, pos, codec>>

\* the peer closes or resets the connection: asyncio schedules connection_lost
PeerClose ==
    /\ Calm
    /\ tstate = "open"
    /\ tstate' = "closing"
    /\ NoReturn
    /\ NoCallback
    /\ NoDecode
    /\ NoWire
    /\ UNCHANGED <<wire, version, dps_to_request, detecting, seqno, session_key, d_session_key, local_nonce, remote_nonce,
                   device_type, dps_cache, transport, heartbeater, listeners, tasks, ops,
                   recvd, disconnected>>

\* connection_lost, called once by the loop after the transport was closed
connection_lost ==
    /\ Calm
    /\ tstate = "closing"
    /\ tstate' = "lost"
    /\ session_key' = NoKey
    /\ d_session_key' = NoKey
    /\ disconnected' = disconnected + 1
    /\ NoReturn
    /\ NoCallback
    /\ NoDecode
    /\ NoWire
    /\ UNCHANGED <<wire, version, dps_to_request, detecting, seqno, local_nonce, remote_nonce, device_type, dps_cache,
                   transport, heartbeater, listeners, tasks, ops, recvd>>

\* close(), from "Abort pending listeners" to its end
CloseRest ==
    /\ heartbeater' = FALSE
    /\ listeners' = Abort(listeners)
    /\ tstate' = IF transport /\ tstate = "open" THEN "closing" ELSE tstate
    /\ transport' = FALSE
    /\ session_key' = NoKey
    /\ d_session_key' = NoKey

\* the heartbeat task has ended (or there is none): awaiting it does not suspend
HeartbeaterDone == ~heartbeater \/ tasks[0].pc \in {"none", "done", "cancelled"}

\* a host task calls close(): heartbeater.cancel(), and the rest at once
\* when there is no running heartbeat task to await
CloseBegin(t) ==
    /\ tasks[t].pc = "idle"
    /\ HostOp
    /\ IF HeartbeaterDone
       THEN /\ CloseRest
            /\ tasks' = [tasks EXCEPT ![t] = Finish(t, "closed")]
            /\ Returns(t, "closed", 0, -1)
       ELSE /\ tasks' = [tasks EXCEPT ![t] = FreshTask("join"),
                                      ![0] = FreshTask("cancelled")]
            /\ Returns(0, "cancelled", tasks[0].wkey, -1)
            /\ UNCHANGED <<heartbeater, listeners, tstate, transport, session_key, d_session_key>>
    /\ NoCallback
    /\ NoDecode
    /\ NoWire
    /\ UNCHANGED <<wire, version, dps_to_request, detecting, seqno, local_nonce, remote_nonce, device_type, dps_cache,
                   disconnected>>

\* close() resumes after the cancelled heartbeat task has ended
CloseFinish(t) ==
    /\ Calm
    /\ tasks[t].pc = "join"
    /\ tasks[0].pc \in {"none", "done", "cancelled"}
    /\ CloseRest
    /\ tasks' = [tasks EXCEPT ![t] = Finish(t, "closed")]
    /\ Returns(t, "closed", 0, -1)
    /\ NoCallback
    /\ NoDecode
    /\ NoWire
    /\ UNCHANGED <<wire, version, dps_to_request, detecting, seqno, local_nonce, remote_nonce, device_type, dps_cache, ops,
                   recvd, disconnected>>

Next ==
    \/ \E t \in Callers, op \in ExchangeOps : Exchange(t, op, TRUE)
    \/ \E t \in Callers, ne \in BOOLEAN : UpdateDps(t, ne, TRUE)
    \/ StartHeartbeat
    \/ HeartbeatLoop(TRUE)
    \/ \E t \in Tasks : Timeout(t, TRUE)
    \/ \E t \in Tasks : Resume(t, TRUE)
    \/ \E m \in Msgs : DataReceived(m)
    \/ PeerClose
    \/ connection_lost
    \/ \E t \in Callers : CloseBegin(t)
    \/ \E t \in Callers : CloseFinish(t)

Spec == Init /\ [][Next]_vars

\* ------------------------------------------------------- a device that is silent
\* The device accepts the connection and never sends a frame or closes; the
\* host starts the heartbeat task and calls operations, and does not close.
\* The counter is followed without a cap: MaxSeqno stands for all larger values.
NextLive ==
    \/ \E t \in Callers, op \in ExchangeOps : Exchange(t, op, FALSE)
    \/ \E t \in Callers, ne \in BOOLEAN : UpdateDps(t, ne, FALSE)
    \/ StartHeartbeat
    \/ HeartbeatLoop(FALSE)
    \/ \E t \in Tasks : Timeout(t, FALSE)
    \/ connection_lost

\* the event loop runs every ready callback: asyncio.sleep ends, the deadline
\* of asyncio.wait_for expires, connection_lost is called after transport.close()
Fairness ==
    /\ WF_vars(HeartbeatLoop(FALSE))
    /\ WF_vars(Timeout(0, FALSE))
    /\ WF_vars(connection_lost)

LiveSpec == Init /\ [][NextLive]_vars /\ Fairness

\* ------------------------------------------------- the data-point operations
\* The host queries, sets and resets data points and fills the request list
\* while the device answers, stays silent or sends status frames of its own;
\* no heartbeat task is started, and close() runs without one to await.
NextDp ==
    \/ \E t \in Callers, op \in ExchangeOps : Exchange(t, op, TRUE)
    \/ \E t \in Callers, data \in ResetArgs : Reset(t, data, TRUE)
    \/ \E d \in DPs : AddDpsToRequest(d)
    \/ \E t \in Callers : Timeout(t, TRUE)
    \/ \E t \in Callers : Resume(t, TRUE)
    \/ \E m \in Msgs : DataReceived(m)
    \/ \E t \in Callers : CloseBegin(t)

DpSpec == Init /\ [][NextDp]_vars

\* --------------------------------------------------------- DP detection
\* The host runs detect_available_dps() next to status(), set_dp() and
\* heartbeat() calls, against a device that answers, stays silent or sends
\* status frames of its own.
NextDetect ==
    \/ \E t \in Callers : Detect(t)
    \/ \E t \in Callers : DetectContinue(t, TRUE)
    \/ \E t \in Callers : DetectWake(t)
    \/ \E t \in Callers, op \in ExchangeOps : Exchange(t, op, TRUE)
    \/ \E t \in Callers : Timeout(t, TRUE)
    \/ \E t \in Callers : Resume(t, TRUE)
    \/ \E m \in Msgs : DataReceived(m)

DetectSpec == Init /\ [][NextDetect]_vars

\* -------------------------------------------------------------- update_dps
\* The host calls update_dps(), with a list or without an argument (which
\* runs detect_available_dps() while the cache is empty), against a device
\* that answers, stays silent or sends status frames of its own.
NextUpdate ==
    \/ \E t \in Callers, ne \in BOOLEAN : UpdateDps(t, ne, TRUE)
    \/ \E t \in Callers : UpdateDpsNone(t)
    \/ \E t \in Callers : DetectContinue(t, TRUE)
    \/ \E t \in Callers : DetectWake(t)
    \/ \E t \in Callers : Timeout(t, TRUE)
    \/ \E t \in Callers : Resume(t, TRUE)
    \/ \E m \in Msgs : DataReceived(m)

UpdateSpec == Init /\ [][NextUpdate]_vars

\* ------------------------------------------- DP detection, run to its end
\* The host runs detect_available_dps() against a device that answers, stays
\* silent, sends status frames of its own or closes the connection. The
\* counter is followed without a cap: MaxSeqno stands for all larger values.
\* One host task is followed; it may call detect_available_dps() again.
Detectors == {1}

NextDetectLive ==
    \/ \E t \in Detectors : Detect(t)
    \/ \E t \in Detectors : DetectContinue(t, FALSE)
    \/ \E t \in Detectors : DetectWake(t)
    \/ \E t \in Detectors : Timeout(t, FALSE)
    \/ \E t \in Detectors : Resume(t, FALSE)
    \/ \E m \in Msgs : DataReceived(m)
    \/ PeerClose
    \/ connection_lost

\* the event loop runs every ready task: a task goes on after the call it
\* awaited has ended, asyncio.sleep ends, the deadline of asyncio.wait_for
\* expires, a task whose semaphore was released resumes
DetectFairness ==
    \A t \in Detectors :
        /\ WF_vars(DetectContinue(t, FALSE))
        /\ WF_vars(DetectWake(t))
        /\ WF_vars(Timeout(t, FALSE))
        /\ WF_vars(Resume(t, FALSE))

DetectLiveSpec == Init /\ [][NextDetectLive]_vars /\ DetectFairness

\* ------------------------------------------------------ the receive buffer
\* The peer's bytes arrive in chunks of any size; the session is as it was
\* constructed and no operation runs. What the peer sends is made of frames
\* as pack_message packs them for the version, of frames with a valid header
\* and too short a length, and of bytes that are no frame.
session == <<version, seqno, session_key, d_session_key, local_nonce, remote_nonce,
             device_type, dps_cache, transport, tstate, heartbeater, listeners, tasks,
             lastWrite, ret, ops, recvd, disconnected, notified, dps_to_request,
             detecting, key>>

\* os.urandom(n): one of the values it gives
Urandom(n) == [i \in 1..n |-> B(7)]

\* n bytes that are nothing in particular
Filler(n) == [i \in 1..n |-> B(1)]

\* header lengths: below every footer size, and the first that is not below
\* FOOTER_SIZE_55AA_HMAC - HEADER_SIZE_55AA
ShortLengths == {0, 20}

\* lengths of the pieces that are no frame
GarbageLengths == {4, 16}

\* the pieces the peer may send: a frame with a command and a payload, a
\* 55AA or 6699 header with a short length n, n bytes that are no frame
Pieces ==
    {[kind |-> "frame", cmd |-> CMD_STATUS, payload |-> Bytes(<<123, 125>>), n |-> 0],
     [kind |-> "frame", cmd |-> CMD_HEART_BEAT, payload |-> <<>>, n |-> 0]}
    \cup {[kind |-> "short55AA", cmd |-> CMD_STATUS, payload |-> <<>>, n |-> n] :
        n \in ShortLengths}
    \cup {[kind |-> "short6699", cmd |-> CMD_STATUS, payload |-> <<>>, n |-> 0]}
    \cup {[kind |-> "garbage", cmd |-> 0, payload |-> <<>>, n |-> n] : n \in GarbageLengths}

\* the bytes of a piece on a session of version v: a frame as pack_message
\* packs it; a 55AA header with length n and n more bytes; a 6699 header
\* with length n, n more bytes and four for the suffix
UnitBytes(u, v) ==
    IF u.kind = "frame"
    THEN pack_message(1, u.cmd, u.payload, DeviceKey, v, FALSE, Urandom(GCM_NONCE_SIZE))
    ELSE IF u.kind = "short55AA"
    THEN U32(PREFIX_55AA) \o U32(1) \o U32(u.cmd) \o U32(u.n) \o Filler(u.n)
    ELSE IF u.kind = "short6699"
    THEN U32(PREFIX_6699) \o Bytes(<<0, 0>>) \o U32(1) \o U32(u.cmd) \o U32(u.n)
         \o Filler(u.n + 4)
    ELSE Filler(u.n)

\* the pieces with their bytes
Units(v) == {[kind |-> u.kind, bytes |-> UnitBytes(u, v)] : u \in Pieces}

\* what the peer may send: up to MaxUnits pieces
Streams(v) == UNION {[1..n -> Units(v)] : n \in 1..MaxUnits}

RECURSIVE Flat(_)
\* the bytes of a sequence of pieces
Flat(u) == IF u = <<>> THEN <<>> ELSE Head(u).bytes \o Flat(Tail(u))

\* the versions with a footer or a format of their own: CRC32, HMAC, 6699
WireVersions == {33, 34, 35}

BufferInit ==
    /\ Constructed
    /\ version \in WireVersions
    /\ stream \in Streams(version)
    /\ codec = NoCodec

\* data_received(data) with the next n bytes: add_data and _process_buffer;
\* an error that leaves data_received makes asyncio close the transport
add_data(n) ==
    LET data == SubSeq(Flat(stream), pos + 1, pos + n)
        r == process_buffer(buffer \o data, <<>>, d_session_key, version)
    IN  /\ raised = "none"
        /\ pos + n <= Len(Flat(stream))
        /\ pos' = pos + n
        /\ buffer' = r.buffer
        /\ dispatched' = dispatched \o r.msgs
        /\ raised' = r.raised
        /\ UNCHANGED <<session, stream, codec>>

NextBuffer == \E n \in 1..(Len(Flat(stream)) - pos) : add_data(n)

BufferSpec == BufferInit /\ [][NextBuffer]_vars

\* ----------------------------------------------------------- the frame codec
\* pack_message is called with a sequence number, a command, a payload and
\* the device key for the session's version; the frame goes to parse_header
\* and unpack_message as it is, or with one byte changed on the wire.
PayloadBytes == {0, 120}

Payloads == UNION {[1..n -> {B(b) : b \in PayloadBytes}] : n \in 0..MaxPayloadLen}

\* the values a changed byte takes
TamperBytes == {0, 85}

CodecInit ==
    /\ Constructed
    /\ stream = <<>>
    /\ codec \in {[NoCodec EXCEPT !.phase = "call", !.seqno = 1, !.cmd = CMD_CONTROL,
                                  !.payload = x, !.encrypt = e] :
                     x \in Payloads, e \in BOOLEAN}

\* pack_message(seqno, cmd, payload, key, protocol_version, encrypt)
Pack ==
    /\ codec.phase = "call"
    /\ codec' = [codec EXCEPT
                    !.phase = "packed",
                    !.frame = pack_message(codec.seqno, codec.cmd, codec.payload, DeviceKey,
                                           version, codec.encrypt, Urandom(GCM_NONCE_SIZE))]
    /\ UNCHANGED <<session, buffer, dispatched, raised, stream, pos>>

\* byte i of the frame is changed to b on the wire
Tamper(i, b) ==
    /\ codec.phase = "packed"
    /\ codec.frame[i] # B(b)
    /\ codec' = [codec EXCEPT !.phase = "tampered", !.at = i, !.frame[i] = B(b)]
    /\ UNCHANGED <<session, buffer, dispatched, raised, stream, pos>>

\* parse_header(data), then unpack_message(data, key, protocol_version, header)
Unpack ==
    LET h == parse_header(codec.frame)
    IN  /\ codec.phase \in {"packed", "tampered"}
        /\ codec' = [codec EXCEPT
                        !.phase = "unpacked",
                        !.msg = IF h.st # "ok" THEN NoMessage("DecodeError")
                                ELSE unpack_message(codec.frame, DeviceKey, version, h)]
        /\ UNCHANGED <<session, buffer, dispatched, raised, stream, pos>>

NextCodec ==
    \/ Pack
    \/ \E i \in 1..Len(codec.frame), b \in TamperBytes : Tamper(i, b)
    \/ Unpack

CodecSpec == CodecInit /\ [][NextCodec]_vars

\* ------------------------------------------------------ routing of frames
\* The host queries and resets data points and sends heartbeats while
\* the device sends frames of every command _dispatch tells apart, with the
\* seqno of a waiter or without.
RouteMsgs ==
    Msgs \cup {[seqno |-> s, cmd |-> CMD_UPDATE_DPS, pk |-> "dps", pn |-> 0] :
                  s \in 0..(MaxSeqno - 1)}

RouteSpec ==
    /\ Init
    /\ [][\/ \E t \in Callers, op \in {CMD_HEART_BEAT, CMD_DP_QUERY} : Exchange(t, op, TRUE)
          \/ \E t \in Callers : Reset(t, NoData, TRUE)
          \/ \E t \in Callers : Timeout(t, TRUE)
          \/ \E t \in Callers : Resume(t, TRUE)
          \/ \E m \in RouteMsgs : DataReceived(m)]_vars

\* ----------------------------------------------------- _encode_message
\* _encode_message is called with a command and a JSON payload on a session
\* of every version, without a session key.
NO_PROTOCOL_HEADER_CMDS ==
    {CMD_DP_QUERY, CMD_DP_QUERY_NEW, CMD_UPDATE_DPS, CMD_HEART_BEAT,
     CMD_SESS_KEY_NEG_START, CMD_SESS_KEY_NEG_RESP, CMD_SESS_KEY_NEG_FINISH}

\* VERSION_31 .. VERSION_35: b"3.1" .. b"3.5"
VersionTag(v) == Bytes(<<48 + (v \div 10), 46, 48 + (v % 10)>>)

PROTOCOL_3X_HEADER_PAD == [i \in 1..12 |-> B(0)]

\* _encode_message: the version header of a session of version v >= 3.2
VersionHeader(v) ==
    (IF v >= 35 THEN VersionTag(35) ELSE IF v >= 34 THEN VersionTag(34) ELSE VersionTag(33))
    \o PROTOCOL_3X_HEADER_PAD

\* AESCipher.encrypt_ecb_base64: four characters for every three bytes
encrypt_ecb_base64(k, pt) ==
    [i \in 1..(4 * ((Len(encrypt_ecb(k, pt)) + 2) \div 3)) |-> <<"b64", i, k, pt>>]

\* md5(b"data=" + encrypted + b"||lpv=3.1||" + key).hexdigest()[8:24]
md5_hex(k, encrypted) == [i \in 1..16 |-> <<"md5", i, k, encrypted>>]

\* _encode_message, up to "Pack message": the payload it hands to pack_message
encode_payload(cmd, payload, k, v) ==
    LET headed == cmd \notin NO_PROTOCOL_HEADER_CMDS
    IN  IF v >= 35 THEN (IF headed THEN VersionHeader(v) \o payload ELSE payload)
        ELSE IF v >= 34
        THEN encrypt_ecb(k, IF headed THEN VersionHeader(v) \o payload ELSE payload)
        ELSE IF v >= 32
        THEN (IF headed THEN VersionHeader(v) ELSE <<>>) \o encrypt_ecb(k, payload)
        ELSE IF cmd = CMD_CONTROL
        THEN VersionTag(31) \o md5_hex(k, encrypt_ecb_base64(k, payload))
             \o encrypt_ecb_base64(k, payload)
        ELSE payload

\* the message: one of the commands of the model, payload b"", b"{}" or b"{{}}"
EncodeInit ==
    /\ Constructed
    /\ stream = <<>>
    /\ codec \in {[NoCodec EXCEPT !.phase = "msg", !.cmd = c, !.payload = x] :
                     c \in {CMD_CONTROL, CMD_CONTROL_NEW, CMD_STATUS, CMD_DP_QUERY,
                            CMD_DP_QUERY_NEW, CMD_UPDATE_DPS, CMD_HEART_BEAT}
                               \cup SESSION_KEY_CMDS,
                     x \in {<<>>, Bytes(<<123, 125>>), Bytes(<<123, 123, 125, 125>>)}}

\* _encode_message(msg)
EncodeMessage ==
    LET k == EncodeKey(session_key)
        e == encode_payload(codec.cmd, codec.payload, k, version)
    IN  /\ codec.phase = "msg"
        /\ seqno' = Bump(seqno)
        /\ codec' = [codec EXCEPT
                        !.phase = "encoded",
                        !.seqno = seqno,
                        !.encrypt = version >= 35,
                        !.encoded = e,
                        !.frame = pack_message(seqno, codec.cmd, e, k, version, version >= 35,
                                               Urandom(GCM_NONCE_SIZE))]
        /\ UNCHANGED <<version, session_key, d_session_key, local_nonce, remote_nonce,
                       device_type, dps_cache, transport, tstate, heartbeater, listeners,
                       tasks, lastWrite, ret, ops, recvd, disconnected, notified,
                       dps_to_request, detecting, key, buffer, dispatched, raised, stream, pos>>

EncodeSpec == EncodeInit /\ [][EncodeMessage]_vars

\* ------------------------------------------- frames with a signature that fails
\* The peer sends 55AA frames as pack_message packs them, some with a byte
\* of the CRC32 or HMAC changed on the way.
\* the frame f of version v with the first byte of its signature changed
BadSignature(f, v) ==
    LET footer_size == IF v >= 34 THEN FOOTER_SIZE_55AA_HMAC ELSE FOOTER_SIZE_55AA_CRC
    IN  [f EXCEPT ![Len(f) - footer_size + 1] = B(0)]

\* the frames the peer may send, intact or not, each with the frame as packed
SignedUnits(v) ==
    {[kind |-> IF bad THEN "badsig" ELSE "frame",
      bytes |-> IF bad THEN BadSignature(UnitBytes(u, v), v) ELSE UnitBytes(u, v),
      packed |-> UnitBytes(u, v)] :
        u \in {p \in Pieces : p.kind = "frame"}, bad \in BOOLEAN}

SignedInit ==
    /\ Constructed
    /\ version \in {31, 33, 34}
    /\ stream \in UNION {[1..n -> SignedUnits(version)] : n \in 1..MaxUnits}
    /\ codec = NoCodec

SignedSpec == SignedInit /\ [][NextBuffer]_vars

\* ------------------------------------------------ frames that come twice
\* The host sends heartbeats and queries the status while the device sends
\* frames, some of them a second time or on the route of one that came before.
RepeatSpec ==
    /\ Init
    /\ [][\/ \E t \in Callers, op \in {CMD_HEART_BEAT, CMD_DP_QUERY} : Exchange(t, op, TRUE)
          \/ \E t \in Callers : Timeout(t, TRUE)
          \/ \E t \in Callers : Resume(t, TRUE)
          \/ \E m \in Msgs : DataReceivedInOrder(m)]_vars

\* ------------------------------------------------------------------ claims

\* C1: concurrently pending exchanges with distinct seqnos are each completed
\* with the reply that carries their own seqno, whatever the order of arrival:
\* exchange waits under the seqno it packed into its frame, a received frame
\* whose seqno has a waiting semaphore is stored under that seqno and nowhere
\* else, and the message wait_for returns to a caller carries the caller's seqno.
C1_OwnReply ==
    [][ /\ (ret'.seqno # -1 /\ ret'.key > 0) =>
              /\ ret'.seqno = ret'.key
              /\ tasks[ret'.by].pc = "wait"
              /\ tasks[ret'.by].wkey = ret'.key
        /\ \A t \in Tasks :
              (tasks'[t].pc = "wait" /\ tasks[t].pc # "wait" /\ tasks'[t].wkey > 0) =>
                  /\ lastWrite'.by = t
                  /\ lastWrite'.seqno = tasks'[t].wkey
                  /\ listeners'[tasks'[t].wkey] = Sem(t)
        /\ (recvd' # recvd) =>
              \A k \in 1..(MaxSeqno - 1) :
                  (listeners[k].kind = "sem") =>
                      \A m \in Msgs :
                          (m.seqno = k /\ DataReceived(m)) =>
                              listeners' = [listeners EXCEPT ![k] = Stored(m)]
      ]_vars

\* a later request is completed by its reply while an earlier one still waits
C1_OutOfOrder ==
    \E t \in Callers, u \in Callers :
        /\ t # u
        /\ ret.by = u /\ ret.key > 0 /\ ret.seqno = ret.key
        /\ tasks[t].pc = "wait" /\ tasks[t].wkey > 0 /\ tasks[t].wkey < ret.key
        /\ listeners[tasks[t].wkey] = Sem(t)

\* C2: on v3.4/v3.5 every frame written to the transport while the session key
\* is absent (so packed with the device key) is one of the three handshake
\* commands
C2_HandshakeOnly ==
    (version >= 34 /\ lastWrite # NoFrame /\ lastWrite.cmd \notin SESSION_KEY_CMDS)
        => lastWrite.key # DeviceKey

\* C3: on v3.4/v3.5 an exchange that finds no session key writes
\* SESS_KEY_NEG_START, writes SESS_KEY_NEG_FINISH only once a
\* SESS_KEY_NEG_RESP was handed to it, and writes its command frame only after
\* FINISH; START and FINISH are packed with the device key, the command frame
\* with the session key derived from the two nonces, which is then the
\* session's key
C3_FirstCommand ==
    [][ LET fr == lastWrite'
            t == lastWrite'.by
            resp == listeners[SESS_KEY_SEQNO]
        IN  (version >= 34 /\ fr # NoFrame) =>
              /\ fr.cmd = CMD_SESS_KEY_NEG_START =>
                    /\ fr.key = DeviceKey
                    /\ session_key = NoKey
                    /\ tasks[t].pc \in {"idle", "sleep"}
              /\ fr.cmd = CMD_SESS_KEY_NEG_FINISH =>
                    /\ fr.key = DeviceKey
                    /\ tasks[t].pc = "hs1"
                    /\ resp.kind = "msg" /\ resp.cmd = CMD_SESS_KEY_NEG_RESP
                    /\ tasks'[t].pc = "hs3"
                    /\ remote_nonce' = resp.pn
                    /\ tasks'[t].pend = DeriveKey(version, local_nonce, resp.pn)
              /\ (fr.cmd \notin SESSION_KEY_CMDS /\ tasks[t].pc \in Waiting) =>
                    /\ tasks[t].pc = "hs3"
                    /\ fr.key = tasks[t].pend
                    /\ fr.key.kind = "session"
                    /\ session_key' = fr.key
      ]_vars

\* the third frame of a v3.4/v3.5 connection is the command, packed with the
\* key derived from the nonces
C3_CommandAfterHandshake ==
    /\ version >= 34
    /\ lastWrite.cmd = CMD_CONTROL_NEW
    /\ lastWrite.seqno = 3
    /\ remote_nonce = 1
    /\ lastWrite.key = DeriveKey(version, local_nonce, remote_nonce)
    /\ session_key = lastWrite.key
    /\ tasks[lastWrite.by].pc = "wait"

\* C4: the sequence counter never decreases
C4_Monotonic == [][seqno' >= seqno]_vars

\* C5: with the heartbeat task started and a device that never answers, the
\* heartbeat task eventually closes the transport and ends, and
\* disconnected() is delivered
C5_HeartbeatGivesUp ==
    heartbeater ~> (tasks[0].pc = "done" /\ tstate = "lost" /\ disconnected = 1)

\* C6: disconnected() is called exactly once per connection, by
\* connection_lost: not before the transport is closed, once when the loop
\* reports the closure, and never again, whoever closed the transport
C6_DisconnectedOnce == disconnected = (IF tstate = "lost" THEN 1 ELSE 0)

\* the heartbeat task closed the transport after an exception, the host
\* called close() as well, and disconnected() was called
C6_SeveralCauses ==
    /\ disconnected = 1
    /\ tasks[0].pc = "done"
    /\ ~transport

\* C7, as stated: whenever the deadline of a waiter passes, its entry is
\* removed from the waiter table, the timeout is raised to the caller of
\* exchange, and transport, session key, device type and DP cache stay as
\* they were
C7_AnyWaiterTimeout ==
    [][ \A t \in Tasks :
            Timeout(t, TRUE) =>
                /\ listeners' = [listeners EXCEPT ![tasks[t].wkey] = Absent]
                /\ ret' = [by |-> t, kind |-> "timeout", key |-> tasks[t].wkey, seqno |-> -1]
                /\ UNCHANGED <<transport, tstate, session_key, d_session_key,
                               device_type, dps_cache>>
      ]_vars

\* C7, amended: when the deadline passes for the waiter that exchange
\* registered for the command frame of a host caller, the entry is removed,
\* the timeout is raised to that caller, the caller is free to start another
\* operation, and the rest of the waiter table, the counter, transport,
\* session key, device type and DP cache stay as they were
C7_CommandTimeout ==
    [][ \A t \in Callers :
            (tasks[t].pc = "wait" /\ Timeout(t, TRUE)) =>
                /\ listeners' = [listeners EXCEPT ![tasks[t].wkey] = Absent]
                /\ ret' = [by |-> t, kind |-> "timeout", key |-> tasks[t].wkey, seqno |-> -1]
                /\ tasks'[t].pc = "idle"
                /\ UNCHANGED <<seqno, transport, tstate, session_key, d_session_key,
                               device_type, dps_cache, heartbeater>>
      ]_vars

\* a host caller got the timeout of its command's waiter on an open session
C7_TimedOut ==
    /\ ret.by \in Callers
    /\ ret.kind = "timeout"
    /\ ret.key > 0
    /\ listeners[ret.key] = Absent
    /\ tasks[ret.by].pc = "idle"
    /\ transport /\ tstate = "open"

\* C8: once a task that awaited in wait_for was cancelled, the waiter table
\* has no entry for the seqno it waited on
C8_CancelUnregisters ==
    (ret.kind = "cancelled" /\ ret.key # 0) => listeners[ret.key] = Absent

\* C9: after close() no exchange is left waiting on an unreleased waiter:
\* every exchange that was pending is completed by the aborted result
C9_AbortCompletes ==
    ~transport =>
        \A t \in Tasks : tasks[t].pc \in Waiting => listeners[tasks[t].wkey].kind # "sem"

\* C10: wait_for on a seqno (real or virtual) that has an entry raises and
\* leaves that entry as it was; an existing entry is never replaced by a new
\* semaphore, except by its owner waiting again after its own wait ended
C10_DuplicateRejected ==
    [][ /\ ret'.kind = "dup" =>
              /\ listeners[ret'.key].kind # "absent"
              /\ listeners'[ret'.key] = listeners[ret'.key]
        /\ \A k \in Keys :
              (listeners[k].kind # "absent" /\ listeners'[k].kind = "sem"
                 /\ listeners'[k] # listeners[k]) =>
                  /\ tasks[listeners'[k].owner].pc \in Waiting
                  /\ tasks[listeners'[k].owner].wkey = k
      ]_vars

\* a second wait on a seqno was rejected while the first waiter, another
\* task's, is still registered and waiting
C10_Rejected ==
    /\ ret.kind = "dup"
    /\ listeners[ret.key].kind = "sem"
    /\ listeners[ret.key].owner # ret.by
    /\ tasks[listeners[ret.key].owner].pc \in Waiting
    /\ tasks[listeners[ret.key].owner].wkey = ret.key

\* C11: once close() has returned or the loss of the connection was reported,
\* the session key is absent in the session and in the dispatcher
C11_KeyGoneAfterClose ==
    (~transport \/ tstate = "lost") => (session_key = NoKey /\ d_session_key = NoKey)

\* C13: when status() returns a reply that decoded to an object with dps,
\* listener.status_updated is called with the DP cache, which holds that
\* reply's dps
C13_StatusNotifies ==
    [][ (ret'.kind = "data" /\ tasks[ret'.by].op = CMD_DP_QUERY) =>
            /\ notified'.called
            /\ notified'.dps = dps_cache'
            /\ dps_cache'[1] = listeners[ret'.key].pn
      ]_vars

\* C14: a received STATUS frame with dps whose seqno has no entry in the
\* waiter table, while there is no RESET entry, is merged into the DP cache
\* as it arrives and listener.status_updated is called once with the merged
\* cache; no waiter is completed, added or removed and no task is resumed
C14_UnsolicitedStatus ==
    [][ (recvd' # recvd) =>
            \A m \in Msgs :
                ( /\ m.cmd = CMD_STATUS
                  /\ m.pk = "dps"
                  /\ listeners[m.seqno].kind = "absent"
                  /\ listeners[RESET_SEQNO].kind = "absent"
                  /\ DataReceived(m) ) =>
                    /\ dps_cache' = [dps_cache EXCEPT ![1] = m.pn]
                    /\ notified' = [called |-> TRUE, dps |-> dps_cache']
                    /\ listeners' = listeners
                    /\ tasks' = tasks
                    /\ ret' = NoRet
      ]_vars

\* two unsolicited STATUS frames arrived while an exchange was waiting: the
\* cache and the listener have the value of the later one, the waiter still waits
C14_LaterValueKept ==
    /\ recvd = 2
    /\ notified.called
    /\ notified.dps[1] = 1
    /\ dps_cache[1] = 1
    /\ \E t \in Callers : tasks[t].pc = "wait" /\ listeners[tasks[t].wkey] = Sem(t)

\* C17: whenever an exchange returns a reply that decoded to an object with
\* dps, whichever operation issued it, the DP cache holds that reply's dps
C17_EveryReplyMerged ==
    [][ (ret'.kind = "data") => dps_cache' = [dps_cache EXCEPT ![1] = listeners[ret'.key].pn] ]_vars

\* C19: when the loss of the connection is reported (disconnected() is
\* delivered), every exchange that is pending is completed, so that its
\* caller gets the transport error and not, later, the timeout of its wait
C19_LossEndsPending ==
    [][ (disconnected' # disconnected) =>
            \A t \in Tasks :
                tasks[t].pc \in Waiting => listeners'[tasks[t].wkey].kind # "sem" ]_vars

\* C20: on v3.5 an exchange that is completed by a message with an empty
\* payload (as made of a frame that could not be decrypted) ends without an
\* exception, whatever its command
C20_UndecryptableGivesNone ==
    [][ (version = 35 /\ ret'.seqno # -1 /\ listeners[ret'.key].pk = "empty") =>
            ret'.kind \notin Raised ]_vars

\* C18: when the handshake fails (no SESS_KEY_NEG_RESP within the waits, or a
\* response that is not a SESS_KEY_NEG_RESP with at least 48 bytes), the
\* exchange ends with an error for its caller, the step writes no frame and
\* the session key stays absent
C18_HandshakeFailureSurfaced ==
    [][ (ret'.kind = "nokey" /\ tasks[ret'.by].pc = "hs1") =>
            /\ ResultOf(ret'.kind) = "exception"
            /\ lastWrite' = NoFrame
            /\ session_key' = NoKey /\ d_session_key' = NoKey ]_vars

\* C15: a reply to status() that carries "data unvalid" makes status() return
\* None and the device type type_0d; and every DP_QUERY that status() writes
\* while the device type is type_0d goes out as CONTROL_NEW with the request
\* list (dps_to_request) as its dps field, while on a type_0a session it goes
\* out as DP_QUERY without data points
C15_Type0dQuery ==
    [][ /\ (ret'.kind = "unvalid" /\ tasks[ret'.by].op = CMD_DP_QUERY) =>
              /\ listeners[ret'.key].pk = "unvalid"
              /\ ResultOf(ret'.kind) = "None"
              /\ device_type' = DEVICE_TYPE_0D
        /\ LET fr == lastWrite'
               t == lastWrite'.by
           IN  (fr # NoFrame /\ tasks'[t].pc = "wait" /\ tasks'[t].op = CMD_DP_QUERY) =>
                  /\ device_type' = DEVICE_TYPE_0D =>
                        /\ fr.cmd = CMD_CONTROL_NEW
                        /\ fr.body = [field |-> "dps", ids |-> dps_to_request]
                  /\ device_type' = DEVICE_TYPE_0A =>
                        /\ fr.cmd = CMD_DP_QUERY
                        /\ fr.body = NoBody
      ]_vars

\* on a v3.3 session that a "data unvalid" reply turned into type_0d, the
\* second status() is waiting for the reply to its CONTROL_NEW frame, which
\* carries the request list
C15_Requery ==
    /\ version = 33
    /\ device_type = DEVICE_TYPE_0D
    /\ ops = 2 /\ recvd = 1
    /\ dps_to_request = {1}
    /\ lastWrite.cmd = CMD_CONTROL_NEW
    /\ lastWrite.seqno = 2
    /\ lastWrite.body = [field |-> "dps", ids |-> {1}]
    /\ tasks[lastWrite.by].pc = "wait"
    /\ tasks[lastWrite.by].op = CMD_DP_QUERY
    /\ \A u \in Callers : u # lastWrite.by => tasks[u].pc = "idle"

\* C16: on version >= 3.3 reset(dpIds) sets the device type to type_0a; the
\* frame it writes is an UPDATE_DPS frame whose payload is {"dpId": dpIds}
\* (the template's list when dpIds is None); it then waits under the RESET
\* virtual seqno, with no entry made under the frame's own seqno, and writes
\* nothing more while it waits
C16_ResetFrame ==
    [][ /\ (ops' # ops /\ version >= 33) =>
              \A t \in Callers, data \in ResetArgs :
                  (tasks[t].pc = "idle" /\ Reset(t, data, TRUE)) =>
                      /\ device_type' = DEVICE_TYPE_0A
                      /\ tasks'[t].pc \in Waiting =>
                            (tasks'[t].op = CMD_UPDATE_DPS /\ tasks'[t].data = data)
                      /\ (lastWrite' # NoFrame /\ version = 33) =>
                            lastWrite'.cmd = CMD_UPDATE_DPS
        /\ LET fr == lastWrite'
               t == lastWrite'.by
           IN  (fr.cmd = CMD_UPDATE_DPS /\ ret'.kind # "true") =>
                  /\ version >= 33
                  /\ fr.body.field = "dpId"
                  /\ \/ /\ tasks'[t].pc = "wait"
                        /\ tasks'[t].op = CMD_UPDATE_DPS
                        /\ fr.body.ids = (IF tasks'[t].data.given
                                          THEN tasks'[t].data.ids ELSE DefaultDpIds)
                        /\ tasks'[t].wkey = RESET_SEQNO
                        /\ listeners[RESET_SEQNO].kind = "absent"
                        /\ listeners'[RESET_SEQNO] = Sem(t)
                        /\ listeners'[fr.seqno] = listeners[fr.seqno]
                     \/ /\ ret'.by = t
                        /\ ret'.kind = "dup"
                        /\ listeners[RESET_SEQNO].kind # "absent"
                        /\ listeners' = listeners
        /\ \A t \in Callers :
              (tasks[t].pc = "wait" /\ tasks[t].op = CMD_UPDATE_DPS) => lastWrite'.by # t
      ]_vars

\* on v3.3 a reset([1]) has written its UPDATE_DPS frame with seqno 2 and
\* waits under the RESET virtual seqno; the table has no entry for seqno 2
C16_ResetWaiting ==
    \E t \in Callers :
        /\ version = 33
        /\ device_type = DEVICE_TYPE_0A
        /\ lastWrite = Frame(2, CMD_UPDATE_DPS, DeviceKey, t, [field |-> "dpId", ids |-> {1}])
        /\ tasks[t].pc = "wait"
        /\ tasks[t].wkey = RESET_SEQNO
        /\ listeners[RESET_SEQNO] = Sem(t)
        /\ listeners[2] = Absent

\* C12: a DP index that is in the DP cache stays in it, whatever operation
\* runs and whatever frame arrives
C12_NeverEvicted ==
    [][ \A d \in DPs : dps_cache[d] # -1 => dps_cache'[d] # -1 ]_vars

\* C27: once SESS_KEY_NEG_FINISH has been written (a task waits in step 3 of
\* the handshake), every frame without a handshake command that is received
\* is decoded with the negotiated session key, and every frame without a
\* handshake command that is written carries the negotiated session key.
C27_SessionKeyAfterFinish ==
    [][\A t \in Callers :
          (tasks[t].pc = "hs3" /\ transport) =>
              /\ \A m \in Msgs :
                    (recvd' # recvd /\ m.cmd \notin SESSION_KEY_CMDS /\ DataReceived(m))
                        => key' = tasks[t].pend
              /\ (lastWrite' # NoFrame /\ lastWrite'.cmd \notin SESSION_KEY_CMDS)
                        => lastWrite'.key = tasks[t].pend]_vars

\* C28: every SESS_KEY_NEG_START and SESS_KEY_NEG_FINISH frame written is
\* packed with the device key, and every received frame with a handshake
\* command is decoded with the device key, also while a session key is held.
C28_HandshakeDeviceKey ==
    [][/\ lastWrite'.cmd \in SESSION_KEY_CMDS => lastWrite'.key = DeviceKey
       /\ (recvd' # recvd /\ key' # DeviceKey)
             => \A m \in Msgs : m.cmd \in SESSION_KEY_CMDS => ~DataReceived(m)]_vars

\* a handshake frame was decoded while a session key was held
C28_HandshakeFrameUnderSessionKey ==
    /\ key = DeviceKey
    /\ d_session_key # NoKey
    /\ recvd > 0
    /\ tstate = "open"

\* C22: on protocol 3.1 update_dps, with a list (empty or not) or without an
\* argument, writes no frame, registers no waiter, leaves the sequence
\* number, the DP cache, the pending-DPS set and the device type as they
\* were, starts no detection and returns True.
C22_UpdateDpsNoOp31 ==
    [][(version = 31 /\ ops' # ops /\
        \E t \in Callers : \/ UpdateDpsNone(t)
                           \/ \E ne \in BOOLEAN : UpdateDps(t, ne, TRUE))
          => /\ lastWrite' = NoFrame
             /\ listeners' = listeners
             /\ seqno' = seqno
             /\ dps_cache' = dps_cache
             /\ dps_to_request' = dps_to_request
             /\ device_type' = device_type
             /\ detecting' = detecting
             /\ ret'.kind = "true"]_vars

\* update_dps has returned True on a 3.1 session whose transport is open
C22_UpdateDpsReturned31 ==
    /\ version = 31
    /\ ret.kind = "true"
    /\ transport
    /\ tstate = "open"

\* C23: detect_available_dps takes the ranges 2..10, 11..20, 21..30 and
\* 100..110 in this order; on entering a range it sets the pending-DPS set to
\* index 1 plus the range, and its status() calls are made with that set as
\* long as no other detection runs; it returns only after the fourth range,
\* or after a range at whose end the device type is type_0a and the cache
\* holds a DP, and in that case it never goes on to a further range.
C23_RangesInOrder ==
    [][\A t \in Callers :
          LET d == detecting[t]
              e == detecting'[t]
              alone == \A u \in Callers \ {t} : detecting[u].next = "off"
              want == {1} \cup (CASE d.rng = 1 -> 2..10
                                  [] d.rng = 2 -> 11..20
                                  [] d.rng = 3 -> 21..30
                                  [] OTHER -> 100..110)
              found == \E x \in DPs : dps_cache'[x] # -1
          IN  (d.next # "off" /\ e # d) =>
                /\ d.rng \in 1..4
                /\ (d.next = "range" /\ e.next = "st") =>
                        dps_to_request' = want /\ e.rng = d.rng
                /\ (d.next = "st" /\ alone) => dps_to_request = want
                /\ (e.next # "off" /\ e.rng # d.rng) =>
                        /\ d.next = "stout"
                        /\ e.next = "range"
                        /\ e.rng = d.rng + 1
                        /\ ~(device_type = DEVICE_TYPE_0A /\ found)
                /\ (d.next \in {"hb", "hbout"}) => d.rng = 1
                /\ e.next = "off" =>
                        /\ d.next = "stout"
                        /\ d.rng = 4 \/ (device_type = DEVICE_TYPE_0A /\ found)]_vars

\* a detection on a type_0d session has made its status() call for the
\* fourth range, 100..110
C23_FourthRangeQueried ==
    \E t \in Callers :
        /\ detecting[t].rng = 4
        /\ detecting[t].next = "stout"
        /\ device_type = DEVICE_TYPE_0D
        /\ dps_to_request = {1} \cup (100..110)

\* C24: every detect_available_dps() call ends, and ends by returning the DP
\* cache: no attempt counter of its retry loops reaches retry_count, and its
\* last step is the return, whatever frames arrive and whether or not the
\* connection is lost.
C24_DetectTerminates ==
    /\ [](\A t \in Callers : detecting[t].att < RETRY_COUNT)
    /\ [][\A t \in Callers :
             (detecting[t].next # "off" /\ detecting'[t].next = "off")
                 => (ret'.by = t /\ ret'.kind = "detected")]_vars
    /\ \A t \in Callers : (detecting[t].next # "off") ~> (detecting[t].next = "off")

\* a detection has returned with an empty cache: no attempt gave a DP
C24_ReturnedEmptyAfterFailures ==
    /\ ret.kind = "detected"
    /\ \A x \in DPs : dps_cache[x] = -1
    /\ tstate = "open"
    /\ \A t \in Callers : detecting[t].next = "off"

\* C21: no error leaves data_received: whatever pieces with a valid prefix and
\* a header length of at most MAX_PAYLOAD_SIZE have arrived, complete or not,
\* well-formed or not, _process_buffer has returned after each chunk.
C21_NoErrorEscapes == raised = "none"

\* C29: when what the peer sends is made of well-formed frames only, the
\* messages dispatched are, after every chunk and whatever the chunks are,
\* the first messages of those the whole stream gives when it arrives in one
\* piece, one for each frame that has arrived completely; the buffer holds
\* the part of the next frame that has arrived, and is empty at the end.
C29_ChunkingIndependent ==
    (\A i \in 1..Len(stream) : stream[i].kind = "frame") =>
        LET all == Flat(stream)
            whole == process_buffer(all, <<>>, d_session_key, version)
            k == Len(dispatched)
            upto(j) == Len(Flat(SubSeq(stream, 1, j)))
        IN  /\ raised = "none"
            /\ Len(whole.msgs) = Len(stream)
            /\ k <= Len(stream)
            /\ dispatched = SubSeq(whole.msgs, 1, k)
            /\ upto(k) <= pos
            /\ k < Len(stream) => pos < upto(k + 1)
            /\ buffer = SubSeq(all, upto(k) + 1, pos)
            /\ pos = Len(all) => (dispatched = whole.msgs /\ buffer = <<>>)

\* the first of two frames was dispatched and a chunk has ended inside the
\* header of the second
C29_SplitInsideHeader ==
    /\ Len(stream) = 2
    /\ \A i \in 1..Len(stream) : stream[i].kind = "frame"
    /\ stream[1] # stream[2]
    /\ Len(dispatched) = 1
    /\ Len(buffer) > 0
    /\ Len(buffer) < HEADER_SIZE_55AA

\* C30: whenever the buffer, after a chunk was appended, is at least four
\* bytes long and begins with neither the 55AA nor the 6699 prefix, it is
\* empty when that call of data_received ends.
C30_GarbageCleared ==
    [][pos' # pos =>
          LET appended == buffer \o SubSeq(Flat(stream), pos + 1, pos')
          IN  (/\ Len(appended) >= 4
               /\ Slice(appended, 0, 4) # U32(PREFIX_55AA)
               /\ Slice(appended, 0, 4) # U32(PREFIX_6699))
                  => buffer' = <<>>]_vars

\* C25: a frame that pack_message has packed and that nothing has changed is
\* accepted by parse_header and unpack_message under the same key, and the
\* message has the sequence number and the command that were packed, the
\* integrity flag set, and as its payload all the bytes the frame carries:
\* the payload given (6699, and 55AA without encryption) or its ECB
\* ciphertext (55AA with encryption).
C25_RoundTrip ==
    (codec.phase = "unpacked" /\ codec.at = 0) =>
        /\ codec.msg.st = "ok"
        /\ codec.msg.seqno = codec.seqno
        /\ codec.msg.cmd = codec.cmd
        /\ codec.msg.crc_good
        /\ codec.msg.payload =
              IF version < 35 /\ codec.encrypt /\ codec.payload # <<>>
              THEN encrypt_ecb(DeviceKey, codec.payload)
              ELSE codec.payload

\* C26: on protocol 3.4 a frame as it was packed is decoded with the
\* integrity flag set, and a frame of which one byte was changed is either
\* not decoded or decoded with the integrity flag not set.
C26_TamperDetected ==
    (version = 34 /\ codec.phase = "unpacked") =>
        IF codec.at = 0
        THEN codec.msg.st = "ok" /\ codec.msg.crc_good
        ELSE ~(codec.msg.st = "ok" /\ codec.msg.crc_good)

\* C31: a received frame changes at most one entry of the waiter table: the
\* one of its seqno when that is registered, whatever the command, and
\* otherwise the HEARTBEAT entry for HEART_BEAT, the SESSION-KEY entry for
\* SESS_KEY_NEG_RESP, the RESET entry for UPDATE_DPS and STATUS; the entry
\* takes the frame when it holds a semaphore. STATUS goes to the listener
\* when neither its seqno nor RESET is registered. Every other frame, and a
\* frame whose virtual waiter is not registered, leaves the waiter table, the
\* DP cache, the device type and the session keys as they were.
C31_RoutedByCommand ==
    [][recvd' # recvd =>
          \A m \in RouteMsgs :
              DataReceived(m) =>
                  LET route == IF Has(listeners, m.seqno) THEN m.seqno
                               ELSE IF m.cmd = CMD_HEART_BEAT THEN HEARTBEAT_SEQNO
                               ELSE IF m.cmd = CMD_SESS_KEY_NEG_RESP THEN SESS_KEY_SEQNO
                               ELSE IF m.cmd \in {CMD_UPDATE_DPS, CMD_STATUS} THEN RESET_SEQNO
                               ELSE m.seqno
                      toListener == /\ m.cmd = CMD_STATUS
                                    /\ ~Has(listeners, m.seqno)
                                    /\ ~Has(listeners, RESET_SEQNO)
                  IN  /\ \A k \in Keys \ {route} : listeners'[k] = listeners[k]
                      /\ listeners'[route] = IF listeners[route].kind = "sem"
                                             THEN Stored(m) ELSE listeners[route]
                      /\ ~Has(listeners, route) => listeners' = listeners
                      /\ toListener => (notified'.called <=> m.pk = "dps")
                      /\ ~toListener =>
                            /\ notified' = NotNotified
                            /\ dps_cache' = dps_cache
                            /\ device_type' = device_type
                      /\ session_key' = session_key
                      /\ d_session_key' = d_session_key]_vars

\* an UPDATE_DPS frame with no waiter of its own was taken by the RESET waiter
C31_UpdateDpsToReset ==
    /\ listeners[RESET_SEQNO].kind = "msg"
    /\ listeners[RESET_SEQNO].cmd = CMD_UPDATE_DPS
    /\ ~Has(listeners, listeners[RESET_SEQNO].seqno)

\* C32: when the status() that detect_available_dps called for a range has
\* ended with "data unvalid" (device type now type_0d, no result), the
\* detection goes on with a query of that same range.
C32_RangeQueriedAgain ==
    [][\A t \in Callers :
          (/\ tasks[t].pc = "dnext"
           /\ detecting[t].next = "stout"
           /\ ret.by = t
           /\ ret.kind = "unvalid"
           /\ detecting'[t] # detecting[t]) =>
              /\ detecting'[t].next = "st"
              /\ detecting'[t].rng = detecting[t].rng]_vars

\* C33: on a session of version 3.2 to 3.5 the payload _encode_message hands
\* to pack_message carries the version header, the tag of the session's own
\* version and twelve zero bytes, exactly when the command is not in
\* NO_PROTOCOL_HEADER_CMDS: in front of the ECB ciphertext on 3.2 and 3.3,
\* inside the ECB plaintext on 3.4, in front of the plaintext that
\* pack_message encrypts with GCM on 3.5.
C33_VersionHeaderOwnVersion ==
    (codec.phase = "encoded" /\ version >= 32) =>
        LET k == EncodeKey(session_key)
            header == IF codec.cmd \in NO_PROTOCOL_HEADER_CMDS THEN <<>>
                      ELSE VersionTag(version) \o PROTOCOL_3X_HEADER_PAD
        IN  codec.encoded =
                IF version >= 35 THEN header \o codec.payload
                ELSE IF version >= 34 THEN encrypt_ecb(k, header \o codec.payload)
                ELSE header \o encrypt_ecb(k, codec.payload)

\* C34: a 55AA frame whose CRC32 or HMAC does not verify raises no error and
\* is given to _dispatch as the message the frame as packed gives, seqno,
\* command and payload the same, with the integrity flag not set; frames
\* with a good signature before and after it are given to _dispatch as well.
C34_BadSignatureDispatched ==
    LET packed == Flat([i \in 1..Len(stream) |-> [bytes |-> stream[i].packed]])
        whole == process_buffer(packed, <<>>, d_session_key, version)
    IN  /\ raised = "none"
        /\ Len(whole.msgs) = Len(stream)
        /\ Len(dispatched) <= Len(stream)
        /\ \A i \in 1..Len(dispatched) :
              /\ whole.msgs[i].crc_good
              /\ dispatched[i] =
                    [whole.msgs[i] EXCEPT !.crc_good = (stream[i].kind = "frame")]
        /\ pos = Len(Flat(stream)) => Len(dispatched) = Len(stream)

\* a frame with a bad signature was dispatched, and the frame after it
C34_AfterBadSignature ==
    /\ Len(stream) = 2
    /\ stream[1].kind = "badsig"
    /\ Len(dispatched) = 2
    /\ ~dispatched[1].crc_good
    /\ dispatched[2].crc_good

\* C35: no operation ends with the rejection of wait_for, "already waiting":
\* whatever the host tasks and the heartbeat task call and in whatever
\* order, a waiter is registered only under a key that has none.
C35_NoDuplicateWaiter == ret.kind # "dup"

\* C36: in a step taken while the session has no transport, that is in every
\* step after close() has returned, nothing is written: the operations
\* called later, the exchanges and handshakes that close() found waiting
\* and the heartbeat task all end without a write.
C36_NoWriteAfterClose == [][~transport => lastWrite' = NoFrame]_vars

\* on a session with a handshake, an exchange has come to "No transport
\* available" after close() and returned None: its handshake was waiting
\* when close() ran, or left a session key behind that a later call found
C36_NoTransportAfterClose ==
    /\ ~transport
    /\ version >= 34
    /\ ret.kind = "notransport"
    /\ seqno > 2

\* C37: on a v3.4 or v3.5 session no frame is written with command CONTROL
\* (7): every set_dp/set_dps request goes out as CONTROL_NEW (13), and its
\* body has the dps under "data", also after reset() or a "data unvalid" reply.
C37_ControlNewOnV34 ==
    version >= 34 =>
        /\ lastWrite.cmd # CMD_CONTROL
        /\ lastWrite.cmd = CMD_CONTROL_NEW => lastWrite.body.field \in {"data", "none"}

\* C38: a frame that arrives on the route of a waiter that holds a message
\* already, through its seqno or through the virtual key of its command,
\* leaves the waiter table as it was and does not reach the listener; and
\* the message an exchange decodes after its wait is the one the table held
\* when the task resumed.
C38_CompletedOnce ==
    [][ /\ recvd' # recvd =>
              LET m == dispatched'[Len(dispatched')]
                  route == IF Has(listeners, m.seqno) THEN m.seqno
                           ELSE IF m.cmd = CMD_HEART_BEAT THEN HEARTBEAT_SEQNO
                           ELSE IF m.cmd = CMD_SESS_KEY_NEG_RESP THEN SESS_KEY_SEQNO
                           ELSE IF m.cmd \in {CMD_UPDATE_DPS, CMD_STATUS} THEN RESET_SEQNO
                           ELSE m.seqno
              IN  listeners[route].kind = "msg" =>
                      /\ listeners' = listeners
                      /\ notified' = NotNotified
                      /\ dps_cache' = dps_cache
        /\ ret'.seqno # -1 =>
              /\ listeners[ret'.key].kind = "msg"
              /\ listeners[ret'.key].seqno = ret'.seqno
              /\ tasks[ret'.by].wkey = ret'.key
      ]_vars

\* two HEART_BEAT frames with different seqnos have come while a heartbeat()
\* waited; the waiter holds the first
C38_SecondHeartbeatFrame ==
    /\ Len(dispatched) = 2
    /\ dispatched[1].cmd = CMD_HEART_BEAT
    /\ dispatched[2].cmd = CMD_HEART_BEAT
    /\ dispatched[1].seqno # dispatched[2].seqno
    /\ listeners[HEARTBEAT_SEQNO] = Stored(dispatched[1])

\* C39: the session key of the session and the session key of the dispatcher
\* are the same in every state between two steps: both absent, or both the
\* key the handshake derived.
C39_SessionKeysAgree == session_key = d_session_key

\* a handshake that close() found waiting has stored its key in both places
C39_KeyStoredAfterClose ==
    /\ ~transport
    /\ session_key # NoKey
    /\ d_session_key = session_key

====
